---- MODULE Spec2Model ----
(***************************************************************************)
(* Model of f5lbaasdriver/v2/bigip/driver_v2.py: the assignment scheduler  *)
(* EntityManager._schedule_agent_and_device ("resolve"), the binding table *)
(* it reads and writes, and the manager methods that call it: create,      *)
(* update and delete of the seven entity managers and the three methods of *)
(* ACLGroupManager.  The assembly of the service that a method sends, by   *)
(* _append_listeners and _append_pools_monitors, and the port of the VIP   *)
(* that LoadBalancerManager.create updates, are studied by themselves      *)
(* (SpecBuild).                                                            *)
(*                                                                         *)
(* Workers run resolve calls concurrently.  Every access to the binding    *)
(* table is one step, so calls interleave between any two statements that  *)
(* touch the table.  Agent and device records are owned by the outside     *)
(* world (health reports, inventory): each read of them draws the value    *)
(* the outside world holds at that moment.                                 *)
(***************************************************************************)
EXTENDS Naturals, Sequences, FiniteSets

VARIABLES
    store,                    \* committed rows of the binding table
    pending,                  \* pending[w]: the row w inserted in its open transaction
    call,                     \* call[w]: locals of w's resolve call
    conflicts,                \* lock conflicts the store has signalled
    scope,                    \* the requests and the outside world of this run
    special_lb_name_prefix,   \* cfg.CONF.special_lb_name_prefix
    op,                       \* op[w]: locals and effects of w's manager method
    db,                       \* the listeners and pools that plugin.db holds
    f5_driver_perf_mode,      \* cfg.CONF.f5_driver_perf_mode
    builder,                  \* locals of the method that builds a service
    ports                     \* the ports of device_owner network:f5lbaasv2

buildvars == <<db, f5_driver_perf_mode, builder>>
vars ==
    <<store, pending, call, conflicts, scope, special_lb_name_prefix, op, buildvars, ports>>

\* ---------------------------------------------------------------- bounds
MaxConflicts == 2
MaxCount == 2
MaxBatch == 3

\* ------------------------------------------------------ program constants
max_wait == 30
MaxInterval == 1
IdPrefixLen == 8

\* ------------------------------------------------------------- universes
Workers == {"w1", "w2"}
LBs == {"lb1", "lb2"}
Agents == {"a1", "a2"}
NoAgent == "none"

Dev1 == <<"a", "b", "c", "1", "2", "3", "4", "5", "x">>
Dev2 == <<"a", "b", "c", "1", "2", "3", "4", "6", "y">>
DeviceIds == {Dev1, Dev2}
NoDevice == <<>>
Unknown == <<"u", "n", "k", "n", "o", "w", "n">>

PENDING_CREATE == "PENDING_CREATE"
PENDING_DELETE == "PENDING_DELETE"
Statuses == {PENDING_CREATE, PENDING_DELETE, "ACTIVE", "PENDING_UPDATE"}

Prefix == <<"s", "-">>
Prefixes == {<<>>, Prefix}
Names ==
    { <<>>,
      Prefix \o SubSeq(Dev1, 1, 8) \o <<"-", "v">>,
      <<"x">> \o Prefix \o SubSeq(Dev2, 1, 8),
      Prefix \o SubSeq(Dev1, 1, 7),
      Prefix \o <<"v", "i", "p">>,
      SubSeq(Dev1, 1, 8) }

NoRow == [loadbalancer_id |-> "none", agent_id |-> NoAgent, device_id |-> NoDevice]

Row(lb, a, d) == [loadbalancer_id |-> lb, agent_id |-> a, device_id |-> d]

Idle ==
    [ pc |-> "idle", lb |-> "none", status |-> "none",
      found |-> FALSE, bound_agent |-> NoAgent, bound_device |-> NoDevice,
      alive |-> FALSE, admin_state_up |-> FALSE,
      agent |-> NoAgent, device |-> NoDevice, device_state |-> "none",
      name |-> <<>>, binding |-> NoRow, wait |-> 0,
      outcome |-> "none", ret_agent |-> NoAgent, ret_device |-> NoDevice,
      agent_calls |-> 0, device_calls |-> 0, writes |-> 0, commits |-> 0 ]

\* the managers, named by the model whose status they set (self.model)
LoadBalancer == "LoadBalancer"
Models == {"Listener", "PoolV2", "MemberV2", "HealthMonitorV2", "L7Policy", "L7Rule"}
ACLGroup == "ACLGroup"

Crud == {"create", "update", "delete"}
AclBinds == {"add_acl_bind", "remove_acl_bind"}
UpdateAclGroup == "update_acl_group"

Request(k, m) == [kind |-> k, method |-> m]
LifecycleRequests == {Request(k, m) : k \in {LoadBalancer} \cup Models, m \in Crud}
AclRequests == {Request(ACLGroup, m) : m \in AclBinds \cup {UpdateAclGroup}}

\* one call of a manager method, before it starts
NoOp ==
    [ pc |-> "idle", kind |-> "none", method |-> "none",
      attached |-> TRUE,        \* the entity's load balancer is not None
      matching |-> 0,           \* load balancers of this driver's provider
      todo |-> 0,               \* of these, the ones not yet resolved
      resolves |-> 0,           \* calls of _schedule_agent_and_device
      agent_calls |-> 0,        \* calls of the agent selector by the method itself
      built |-> 0,              \* calls of service_builder.build
      batch |-> <<>>,           \* update_acl_group: what each resolve returned
      service_devices |-> {},   \* update_acl_group: the dict of line 1426
      sent |-> <<>>,            \* calls of agent_rpc, in order
      steps |-> <<>>,           \* the steps of a lifecycle call, in order
      subnet |-> "none",        \* create of a member: member.subnet_id
      all_ports |-> 0,          \* create of a member: what get_ports_count gave
      the_port_id |-> <<>>,     \* create of a member: the port it created
      deleted |-> FALSE,        \* db.delete_loadbalancer was called
      marked |-> {},            \* models whose row update_status set to ERROR
      raised |-> "none",        \* the first exception raised in the call
      outcome |-> "none" ]      \* "returned", or the exception the caller gets

\* -------------------------------------------------------- pure functions

\* Python's "needle in haystack" on strings
Contains(haystack, needle) ==
    \E i \in 0..(Len(haystack) - Len(needle)) :
        SubSeq(haystack, i + 1, i + Len(needle)) = needle

\* Python's s[:n]
Slice(s, n) == IF Len(s) <= n THEN s ELSE SubSeq(s, 1, n)

\* lines 235-245 with the whole device id in place of device_id[:8]
SpecialNameMatchWholeId(name, prefix, device_id) ==
    IF name # <<>> /\ prefix # <<>> /\ Contains(name, prefix)
    THEN Contains(name, prefix \o device_id)
    ELSE FALSE

\* lines 235-245: the name test that accepts a disabled device
SpecialNameMatch(name, prefix, device_id) ==
    IF name # <<>> /\ prefix # <<>> /\ Contains(name, prefix)
    THEN LET id_prefix == Slice(device_id, IdPrefixLen)
             match_regex == prefix \o id_prefix
         IN  Contains(name, match_regex)
    ELSE FALSE

\* the counters of a call's selector calls and writes stop at MaxCount
Inc(n) == IF n < MaxCount THEN n + 1 ELSE n

\* a call ends: an exception is raised or a pair is returned
Raise(c, exc) == [c EXCEPT !.pc = "done", !.outcome = exc]
Return(c, a, d) ==
    [c EXCEPT !.pc = "done", !.outcome = "returned", !.ret_agent = a, !.ret_device = d]

RowsIn(rows, lb) == {r \in rows : r.loadbalancer_id = lb}
RowsOf(lb) == RowsIn(store, lb)

\* AgentSelector.select: a candidate agent, or an error
AgentSchedule == Agents \cup {"error"}

\* DeviceSelector.select: a device of the inventory, or an error
DeviceSchedule == DeviceIds \cup {<<"error">>}

\* DeviceSelector.load: the record of the device, or None
DeviceLoad == {"missing", "disabled", "enabled"}

\* random.uniform(0, 1.0), in whole time units
Intervals == 0..MaxInterval

\* a validator, a port call of the core plugin, service_builder.build and
\* a call of agent_rpc each return or raise
Results == {"ok", "error"}

\* ---------------------------------------------------------------- Init
Healths == BOOLEAN \X BOOLEAN

\* one worker; every request and every answer of the outside world
Sequential ==
    [ workers |-> {"w1"}, lbs |-> LBs, statuses |-> Statuses, healths |-> Healths,
      device_states |-> DeviceLoad, names |-> Names, prefixes |-> Prefixes,
      bounded |-> TRUE, requests |-> {}, attachments |-> {TRUE}, rows |-> {},
      subnets |-> {} ]

\* two workers racing for one load balancer
Race ==
    [ workers |-> Workers, lbs |-> {"lb1"}, statuses |-> {PENDING_CREATE},
      healths |-> {<<TRUE, TRUE>>, <<FALSE, TRUE>>},
      device_states |-> {"enabled", "missing"}, names |-> {<<>>},
      prefixes |-> {<<>>}, bounded |-> TRUE,
      requests |-> {}, attachments |-> {TRUE}, rows |-> {},
      subnets |-> {} ]

\* one worker, and a store that signals conflicts without limit, so that
\* the wait budget of a call can be used up
Busy ==
    [ workers |-> {"w1"}, lbs |-> {"lb1"}, statuses |-> {PENDING_CREATE},
      healths |-> {<<TRUE, TRUE>>, <<FALSE, TRUE>>},
      device_states |-> {"enabled", "missing"}, names |-> {<<>>},
      prefixes |-> {<<>>}, bounded |-> FALSE,
      requests |-> {}, attachments |-> {TRUE}, rows |-> {},
      subnets |-> {} ]

\* one worker calling create, update and delete of the seven managers and
\* the two ACL binds, for an entity with or without a load balancer
Lifecycle ==
    [ workers |-> {"w1"}, lbs |-> {"lb1"},
      statuses |-> {PENDING_CREATE, PENDING_DELETE, "ACTIVE"},
      healths |-> {<<TRUE, TRUE>>},
      device_states |-> {"enabled", "missing"}, names |-> {<<>>},
      prefixes |-> {<<>>}, bounded |-> TRUE,
      requests |-> LifecycleRequests \cup {Request(ACLGroup, m) : m \in AclBinds},
      attachments |-> BOOLEAN, rows |-> {},
      subnets |-> {"s1"} ]

\* one worker calling the ACL methods for three load balancers that the
\* binding table holds already, two of them on one device
AclLBs == LBs \cup {"lb3"}
AclRows == {Row("lb1", "a1", Dev1), Row("lb2", "a2", Dev1), Row("lb3", "a1", Dev2)}
Acl ==
    [ workers |-> {"w1"}, lbs |-> AclLBs, statuses |-> {"ACTIVE"},
      healths |-> {<<TRUE, TRUE>>},
      device_states |-> {"enabled", "missing"}, names |-> {<<>>},
      prefixes |-> {<<>>}, bounded |-> TRUE,
      requests |-> AclRequests, attachments |-> {TRUE}, rows |-> AclRows,
      subnets |-> {} ]

\* two workers calling create of MemberManager for members of one load
\* balancer that the binding table holds already, on two subnets
Members ==
    [ workers |-> Workers, lbs |-> {"lb1"}, statuses |-> {"ACTIVE"},
      healths |-> {<<TRUE, TRUE>>},
      device_states |-> {"enabled", "missing"}, names |-> {<<>>},
      prefixes |-> {<<>>}, bounded |-> TRUE,
      requests |-> {Request("MemberV2", "create")}, attachments |-> {TRUE},
      rows |-> {Row("lb1", "a1", Dev1)},
      subnets |-> {"s1", "s2"} ]

\* ------------------------------------------- the data of a service
\* None of python, for the values that the model holds as strings
None == "none"

\* dict[key] = value, and dict.update({key: value})
Put(dict, key, value) ==
    [k \in DOMAIN dict \cup {key} |-> IF k = key THEN value ELSE dict[k]]

\* loadbalancer.listeners and loadbalancer.pools of the two load
\* balancers, in the order of the lists
Listeners == <<"l1", "l2", "l3">>
Pools == <<"p1", "p2">>

\* the listeners and pools of plugin.db: l1, l2 and p1 belong to lb1, l3
\* and p2 to lb2.  The default pool of a listener is a pool of its load
\* balancer, and a health monitor belongs to one pool: the plugin keeps
\* both.  l1 and p1 take every shape, the others are fixed.
Graph(pool1, pool2, members, monitor, persistence, policies, pool_policies) ==
    [ listeners |->
        [ l \in {"l1", "l2", "l3"} |->
            [ loadbalancer_id |-> IF l = "l3" THEN "lb2" ELSE "lb1",
              default_pool |-> IF l = "l1" THEN pool1
                               ELSE IF l = "l2" THEN pool2 ELSE "p2",
              l7_policies |-> IF l = "l1" THEN policies ELSE <<>> ] ],
      pools |->
        [ p \in {"p1", "p2"} |->
            [ loadbalancer_id |-> IF p = "p1" THEN "lb1" ELSE "lb2",
              members |-> IF p = "p1" THEN members ELSE <<"m4">>,
              healthmonitor |-> IF p = "p1" THEN monitor ELSE "h2",
              session_persistence |-> IF p = "p1" THEN persistence ELSE <<>>,
              l7_policies |-> IF p = "p1" THEN pool_policies ELSE <<>> ] ] ]

Graphs ==
    { Graph(pool1, pool2, members, monitor, persistence, policies, pool_policies) :
        pool1 \in {None, "p1"}, pool2 \in {None, "p1"},
        members \in {<<>>, <<"m1", "m2", "m3">>},
        monitor \in {None, "h1"},
        persistence \in {<<>>, <<"SOURCE_IP">>},
        policies \in {<<>>, <<"y1", "y2">>},
        pool_policies \in {<<>>, <<"y3">>} }

\* cfg.CONF.f5_driver_perf_mode: lines 634 and 357 test it for 2 and 3
PerfModes == 0..3

\* the link descriptors of a device, and the devices that resolve returns
\* to LoadBalancerManager.create: with or without a masquerade_mac, with
\* or without local_link_information
Link1 == [switch_id |-> "s1", port_id |-> "e1"]
Link2 == [switch_id |-> "s2", port_id |-> "e2", switch_info |-> "i2"]
LinkLists == {<<>>, <<Link1>>, <<Link1, Link2>>, <<Link2, Link1>>}
Devices ==
    { [id |-> Dev1, masquerade_mac |-> mac, local_link_information |-> links] :
        mac \in {None, "fa:16:3e"}, links \in LinkLists }

\* the service dict before anything is put into it
NoService == [loadbalancer |-> None, listeners |-> <<>>, pools |-> <<>>,
              healthmonitors |-> <<>>]

\* the device of a method that has not called resolve yet
NoDeviceDict == [id |-> NoDevice, masquerade_mac |-> None, local_link_information |-> <<>>]

\* no method is building a service
NoBuild ==
    [ pc |-> "idle", kind |-> None, method |-> None,
      entity |-> None,            \* the listener or the pool of the entity
      loadbalancer |-> None,      \* the load balancer of the entity
      given |-> NoDeviceDict,     \* the device as resolve returned it
      device |-> NoDeviceDict,    \* the device, a dict that the method may change
      port |-> <<>>,              \* local_link_information of update_port
      kwargs |-> {},              \* the functions that the method hands over
      hints |-> [listeners |-> <<>>, pools |-> <<>>],
      todo |-> [listeners |-> <<>>, pools |-> <<>>],
      service |-> NoService,      \* the dict that the builder fills
      services |-> <<>> ]         \* the services that _create_service returned

\* no call of resolve: the scope of the runs that build services
Building ==
    [ workers |-> {}, lbs |-> LBs, statuses |-> {"ACTIVE"},
      healths |-> {<<TRUE, TRUE>>}, device_states |-> {"enabled"},
      names |-> {<<>>}, prefixes |-> {<<>>}, bounded |-> TRUE,
      requests |-> LifecycleRequests, attachments |-> {TRUE}, rows |-> {},
      subnets |-> {} ]

\* the binding table is a database that outlives the driver: a run begins
\* with the rows its scope names
InitIn(scopes) ==
    /\ scope \in scopes
    /\ store = scope.rows
    /\ pending = [w \in Workers |-> NoRow]
    /\ call = [w \in Workers |-> Idle]
    /\ conflicts = 0
    /\ special_lb_name_prefix \in scope.prefixes
    /\ op = [w \in Workers |-> NoOp]
    /\ db = Graph(None, None, <<>>, None, <<>>, <<>>, <<>>)
    /\ f5_driver_perf_mode = 0
    /\ builder = NoBuild
    /\ ports = {}

Init == InitIn({Sequential, Race, Busy, Lifecycle, Acl, Members})

\* ------------------------------------------------------------- actions

\* resolve is called by the manager method that w runs; the scopes that
\* name no request study resolve by itself, whoever calls it
ResolveCalled(w) == IF scope.requests = {} THEN op[w].pc = "idle" ELSE op[w].pc = "resolve"

\* lines 202-208 and 257-272, with the two tests as parameters: the
\* healths for which the bound agent is replaced, and the statuses for
\* which a missing binding returns (None, None)
LookupAs(w, unusable, silent) ==
    /\ w \in scope.workers
    /\ ResolveCalled(w)
    /\ call[w].pc = "idle"
    /\ \E lb \in scope.lbs, st \in scope.statuses :
         LET c0 == [Idle EXCEPT !.lb = lb, !.status = st] IN
         IF RowsOf(lb) # {}
         THEN \E r \in RowsOf(lb), h \in scope.healths :
                call' = [call EXCEPT ![w] =
                    [c0 EXCEPT !.found = TRUE,
                               !.bound_agent = r.agent_id,
                               !.bound_device = r.device_id,
                               !.alive = h[1], !.admin_state_up = h[2],
                               !.agent = r.agent_id,
                               !.pc = IF h \in unusable
                                      THEN "reschedule" ELSE "load_device"]]
         ELSE call' = [call EXCEPT ![w] =
                    IF st = PENDING_CREATE THEN [c0 EXCEPT !.pc = "schedule_agent"]
                    ELSE IF st \in silent THEN Return(c0, NoAgent, NoDevice)
                    ELSE Raise(c0, "Exception")]
    /\ UNCHANGED <<store, pending, conflicts, scope, special_lb_name_prefix, op, buildvars, ports>>

\* line 208: not agent["alive"] or not agent["admin_state_up"]
AgentUnusable == {h \in Healths : ~h[1] \/ ~h[2]}

\* line 261
SilentStatuses == {PENDING_DELETE}

\* line 208 with the second test reversed
LookupReschedulesEnabled(w) ==
    LookupAs(w, {h \in Healths : ~h[1] \/ h[2]}, SilentStatuses)

\* line 261 taking every status for a deletion
LookupAlwaysSilent(w) == LookupAs(w, AgentUnusable, Statuses)

\* lines 202-208 and 257-272: look the binding up; without one, the
\* provisioning status of the load balancer decides
Lookup(w) == LookupAs(w, AgentUnusable, SilentStatuses)

\* lines 208-217: the bound agent is dead or disabled, ask for another
Reschedule(w) ==
    /\ call[w].pc = "reschedule"
    /\ \E a \in AgentSchedule :
         call' = [call EXCEPT ![w] =
            LET c == [call[w] EXCEPT !.agent_calls = Inc(@)] IN
            IF a = "error" THEN Raise(c, "AgentSchedulerError")
            ELSE [c EXCEPT !.agent = a, !.pc = "update_binding"]]
    /\ UNCHANGED <<store, pending, conflicts, scope, special_lb_name_prefix, op, buildvars, ports>>

\* lines 218-224 without the assignment of line 222
UpdateBindingNoWrite(w) ==
    /\ call[w].pc = "update_binding"
    /\ call' = [call EXCEPT ![w].pc = "load_device",
                            ![w].writes = Inc(@), ![w].commits = Inc(@)]
    /\ UNCHANGED <<store, pending, conflicts, scope, special_lb_name_prefix, op, buildvars, ports>>

\* lines 218-224 with the row deleted and inserted anew, without a device
UpdateBindingNewRow(w) ==
    /\ call[w].pc = "update_binding"
    /\ store' = {r \in store : r.loadbalancer_id # call[w].lb}
                   \cup {Row(call[w].lb, call[w].agent, Unknown)}
    /\ call' = [call EXCEPT ![w].pc = "load_device",
                            ![w].writes = Inc(@), ![w].commits = Inc(@)]
    /\ UNCHANGED <<pending, conflicts, scope, special_lb_name_prefix, op, buildvars, ports>>

\* lines 218-224 writing only when the row still holds the agent that
\* line 203 read
UpdateBindingIfUnchanged(w) ==
    /\ call[w].pc = "update_binding"
    /\ store' = {IF r.loadbalancer_id = call[w].lb /\ r.agent_id = call[w].bound_agent
                 THEN [r EXCEPT !.agent_id = call[w].agent] ELSE r : r \in store}
    /\ call' = [call EXCEPT ![w].pc = "load_device",
                            ![w].writes = Inc(@), ![w].commits = Inc(@)]
    /\ UNCHANGED <<pending, conflicts, scope, special_lb_name_prefix, op, buildvars, ports>>

\* lines 218-224: overwrite agent_id of the binding row, in a transaction
\* of its own
UpdateBinding(w) ==
    /\ call[w].pc = "update_binding"
    /\ store' = {IF r.loadbalancer_id = call[w].lb
                 THEN [r EXCEPT !.agent_id = call[w].agent] ELSE r : r \in store}
    /\ call' = [call EXCEPT ![w].pc = "load_device",
                            ![w].writes = Inc(@), ![w].commits = Inc(@)]
    /\ UNCHANGED <<pending, conflicts, scope, special_lb_name_prefix, op, buildvars, ports>>

\* lines 226-255, with the exception raised for a device that is not
\* found as a parameter ("" for none: the code falls through to line 257)
LoadDeviceAs(w, not_found) ==
    /\ call[w].pc = "load_device"
    /\ \E ds \in scope.device_states, nm \in scope.names :
         /\ (ds # "disabled") => (nm = <<>>)
         /\ call' = [call EXCEPT ![w] =
              LET c == [call[w] EXCEPT !.device_state = ds, !.name = nm,
                                       !.device = call[w].bound_device] IN
              IF ds = "enabled" THEN Return(c, c.agent, c.device)
              ELSE IF ds = "disabled"
                      /\ SpecialNameMatch(nm, special_lb_name_prefix, c.device)
                   THEN Return(c, c.agent, c.device)
              ELSE IF ds = "missing"
                   THEN IF not_found # "" THEN Raise(c, not_found)
                        ELSE IF c.status = PENDING_CREATE
                             THEN [c EXCEPT !.pc = "schedule_agent"]
                        ELSE IF c.status = PENDING_DELETE
                             THEN Return(c, NoAgent, NoDevice)
                        ELSE Raise(c, "Exception")
              ELSE Raise(c, "LbaasDeviceDisabled")]
    /\ UNCHANGED <<store, pending, conflicts, scope, special_lb_name_prefix, op, buildvars, ports>>

\* lines 226-255 with the agent_id of lines 218-224 taken back when the
\* device is not there or disabled
LoadDeviceRollsBack(w) ==
    /\ call[w].pc = "load_device"
    /\ \E ds \in scope.device_states, nm \in scope.names :
         /\ (ds # "disabled") => (nm = <<>>)
         /\ call' = [call EXCEPT ![w] =
              LET c == [call[w] EXCEPT !.device_state = ds, !.name = nm,
                                       !.device = call[w].bound_device] IN
              IF ds = "enabled" THEN Return(c, c.agent, c.device)
              ELSE IF ds = "disabled"
                      /\ SpecialNameMatch(nm, special_lb_name_prefix, c.device)
                   THEN Return(c, c.agent, c.device)
              ELSE IF ds = "missing" THEN Raise(c, "LbaasDeviceDisappeared")
              ELSE Raise(c, "LbaasDeviceDisabled")]
         /\ store' = IF ds = "enabled"
                        \/ (ds = "disabled"
                            /\ SpecialNameMatch(nm, special_lb_name_prefix,
                                                call[w].bound_device))
                     THEN store
                     ELSE {IF r.loadbalancer_id = call[w].lb
                           THEN [r EXCEPT !.agent_id = call[w].bound_agent]
                           ELSE r : r \in store}
    /\ UNCHANGED <<pending, conflicts, scope, special_lb_name_prefix, op, buildvars, ports>>

\* lines 247-250 left out
LoadDeviceFallsThrough(w) == LoadDeviceAs(w, "")

\* lines 226-255: load the bound device and return it, or say why not
LoadDevice(w) == LoadDeviceAs(w, "LbaasDeviceDisappeared")

\* lines 274-288: no binding and PENDING_CREATE: select an agent and build
\* the binding object, device_id "unknown"
ScheduleAgent(w) ==
    /\ call[w].pc = "schedule_agent"
    /\ \E a \in AgentSchedule :
         call' = [call EXCEPT ![w] =
            LET c == [call[w] EXCEPT !.agent_calls = Inc(@)] IN
            IF a = "error" THEN Raise(c, "AgentSchedulerError")
            ELSE [c EXCEPT !.agent = a, !.binding = Row(c.lb, a, Unknown),
                           !.wait = 0, !.pc = "flush"]]
    /\ UNCHANGED <<store, pending, conflicts, scope, special_lb_name_prefix, op, buildvars, ports>>

\* lines 290-295 with session.merge for session.add: no error on a
\* committed row of the same key
FlushMerge(w) ==
    /\ call[w].pc = "flush"
    /\ \A v \in Workers \ {w} : pending[v].loadbalancer_id # call[w].lb
    /\ pending' = [pending EXCEPT ![w] = call[w].binding]
    /\ call' = [call EXCEPT ![w].pc = "lock", ![w].writes = Inc(@)]
    /\ UNCHANGED <<store, conflicts, scope, special_lb_name_prefix, op, buildvars, ports>>

\* lines 290-295 as REPLACE: a committed row of the same key is deleted
FlushReplace(w) ==
    /\ call[w].pc = "flush"
    /\ \A v \in Workers \ {w} : pending[v].loadbalancer_id # call[w].lb
    /\ store' = store \ RowsOf(call[w].lb)
    /\ pending' = [pending EXCEPT ![w] = call[w].binding]
    /\ call' = [call EXCEPT ![w].pc = "lock", ![w].writes = Inc(@)]
    /\ UNCHANGED <<conflicts, scope, special_lb_name_prefix, op, buildvars, ports>>

\* lines 290-295 with the INSERT committed on its own, outside the
\* transaction of the device write
FlushAutocommit(w) ==
    /\ call[w].pc = "flush"
    /\ \A v \in Workers \ {w} : pending[v].loadbalancer_id # call[w].lb
    /\ IF RowsOf(call[w].lb) # {}
       THEN /\ call' = [call EXCEPT ![w] = Raise(call[w], "DBDuplicateEntry")]
            /\ UNCHANGED store
       ELSE /\ store' = store \cup {call[w].binding}
            /\ call' = [call EXCEPT ![w].pc = "lock", ![w].writes = Inc(@)]
    /\ UNCHANGED <<pending, conflicts, scope, special_lb_name_prefix, op, buildvars, ports>>

\* lines 292-300: the row locks of the open transaction of w.  The INSERT
\* of line 295 locks the row it inserts until the transaction ends, and
\* the query of line 298 (with_for_update) locks the rows without a
\* device, of which no other can be there while w goes on (C4).  No other
\* statement of the file asks for a lock.
HoldsRowLock(w, lb) == pending[w] # NoRow /\ pending[w].loadbalancer_id = lb

\* lines 290-295: open the transaction and INSERT the binding object.
\* loadbalancer_id is the primary key (line 221 gets the row by it): the
\* INSERT waits for an open transaction that inserted the same key, and
\* fails on a committed row with that key.
Flush(w) ==
    /\ call[w].pc = "flush"
    /\ \A v \in Workers \ {w} : pending[v].loadbalancer_id # call[w].lb
    /\ IF RowsOf(call[w].lb) # {}
       THEN /\ call' = [call EXCEPT ![w] = Raise(call[w], "DBDuplicateEntry")]
            /\ UNCHANGED pending
       ELSE /\ pending' = [pending EXCEPT ![w] = call[w].binding]
            /\ call' = [call EXCEPT ![w].pc = "lock", ![w].writes = Inc(@)]
    /\ UNCHANGED <<store, conflicts, scope, special_lb_name_prefix, op, buildvars, ports>>

\* lines 297-307: SELECT ... FOR UPDATE of the rows without a device; it
\* waits for the open transactions that hold such a row.  b is the binding
\* object itself: the session maps the row of its key to it.
LockPlaceholders(w) ==
    /\ call[w].pc = "lock"
    /\ \A v \in Workers \ {w} : pending[v].device_id # Unknown
    /\ call' = [call EXCEPT ![w].pc = "schedule_device"]
    /\ UNCHANGED <<store, pending, conflicts, scope, special_lb_name_prefix, op, buildvars, ports>>

\* lines 309-315 with the transaction committed when the selector raises
ScheduleDeviceErrorCommits(w) ==
    /\ call[w].pc = "schedule_device"
    /\ \E d \in DeviceSchedule :
         LET c == [call[w] EXCEPT !.device_calls = Inc(@)] IN
         IF d = <<"error">>
         THEN /\ call' = [call EXCEPT ![w] = Raise(c, "DeviceSchedulerError")]
              /\ pending' = [pending EXCEPT ![w] = NoRow]
              /\ store' = store \cup {pending[w]}
         ELSE /\ call' = [call EXCEPT ![w] =
                    [c EXCEPT !.device = d, !.binding.device_id = d, !.pc = "commit"]]
              /\ UNCHANGED <<pending, store>>
    /\ UNCHANGED <<conflicts, scope, special_lb_name_prefix, op, buildvars, ports>>

\* lines 309-315 with a selection that is made again within the attempt
ScheduleDeviceAgain(w) ==
    /\ call[w].pc = "schedule_device"
    /\ \E d \in DeviceSchedule :
         LET c == [call[w] EXCEPT !.device_calls = Inc(@)] IN
         IF d = <<"error">>
         THEN /\ call' = [call EXCEPT ![w] = Raise(c, "DeviceSchedulerError")]
              /\ pending' = [pending EXCEPT ![w] = NoRow]
         ELSE /\ call' = [call EXCEPT ![w] =
                    [c EXCEPT !.device = d, !.binding.device_id = d,
                              !.pc = IF call[w].device_calls = 0
                                     THEN "schedule_device" ELSE "commit"]]
              /\ UNCHANGED pending
    /\ UNCHANGED <<store, conflicts, scope, special_lb_name_prefix, op, buildvars, ports>>

\* lines 309-315: select a device and set it on the binding object; an
\* error of the selector leaves the with-block and rolls back
ScheduleDevice(w) ==
    /\ call[w].pc = "schedule_device"
    /\ \E d \in DeviceSchedule :
         LET c == [call[w] EXCEPT !.device_calls = Inc(@)] IN
         IF d = <<"error">>
         THEN /\ call' = [call EXCEPT ![w] = Raise(c, "DeviceSchedulerError")]
              /\ pending' = [pending EXCEPT ![w] = NoRow]
         ELSE /\ call' = [call EXCEPT ![w] =
                    [c EXCEPT !.device = d, !.binding.device_id = d, !.pc = "commit"]]
              /\ UNCHANGED pending
    /\ UNCHANGED <<store, conflicts, scope, special_lb_name_prefix, op, buildvars, ports>>

\* lines 315-316 without the write of line 314: the row is committed as
\* it was inserted
CommitStale(w) ==
    /\ call[w].pc = "commit"
    /\ store' = store \cup {pending[w]}
    /\ pending' = [pending EXCEPT ![w] = NoRow]
    /\ call' = [call EXCEPT ![w] =
            Return([call[w] EXCEPT !.writes = Inc(@), !.commits = Inc(@)],
                   call[w].agent, call[w].device)]
    /\ UNCHANGED <<conflicts, scope, special_lb_name_prefix, op, buildvars, ports>>

\* lines 315-316 and 332-335: the with-block ends, the row is committed
\* with its device; break, return
Commit(w) ==
    /\ call[w].pc = "commit"
    /\ store' = store \cup {call[w].binding}
    /\ pending' = [pending EXCEPT ![w] = NoRow]
    /\ call' = [call EXCEPT ![w] =
            Return([call[w] EXCEPT !.writes = Inc(@), !.commits = Inc(@)],
                   call[w].agent, call[w].device)]
    /\ UNCHANGED <<conflicts, scope, special_lb_name_prefix, op, buildvars, ports>>

\* lines 317-330 without line 325: the wait is not accumulated
DeadlockAfterWaitLost(w, interval) ==
    /\ call[w].pc \in {"flush", "lock", "commit"}
    /\ scope.bounded => conflicts < MaxConflicts
    /\ conflicts' = IF scope.bounded THEN conflicts + 1 ELSE conflicts
    /\ pending' = [pending EXCEPT ![w] = NoRow]
    /\ call' = [call EXCEPT ![w] =
            IF call[w].wait + interval <= max_wait
            THEN [call[w] EXCEPT !.pc = "flush"]
            ELSE Raise(call[w], "DeviceSchedulerBusy")]
    /\ UNCHANGED <<store, scope, special_lb_name_prefix, op, buildvars, ports>>

\* lines 317-330 with the interval slept and added before the test of
\* line 323
DeadlockAfterSleepsFirst(w, interval) ==
    /\ call[w].pc \in {"flush", "lock", "commit"}
    /\ scope.bounded => conflicts < MaxConflicts
    /\ conflicts' = IF scope.bounded THEN conflicts + 1 ELSE conflicts
    /\ pending' = [pending EXCEPT ![w] = NoRow]
    /\ call' = [call EXCEPT ![w] =
            LET c == [call[w] EXCEPT !.wait = @ + interval] IN
            IF c.wait <= max_wait THEN [c EXCEPT !.pc = "flush"]
            ELSE Raise(c, "DeviceSchedulerBusy")]
    /\ UNCHANGED <<store, scope, special_lb_name_prefix, op, buildvars, ports>>

\* lines 317-330 for one value of random.uniform: a statement of the
\* transaction raises DBDeadlock; the transaction is rolled back, the
\* binding object keeps its fields; the loop goes on while the wait with
\* the new interval stays within max_wait
DeadlockAfter(w, interval) ==
    /\ call[w].pc \in {"flush", "lock", "commit"}
    /\ scope.bounded => conflicts < MaxConflicts
    /\ conflicts' = IF scope.bounded THEN conflicts + 1 ELSE conflicts
    /\ pending' = [pending EXCEPT ![w] = NoRow]
    /\ call' = [call EXCEPT ![w] =
            IF call[w].wait + interval <= max_wait
            THEN LET c == [call[w] EXCEPT !.wait = @ + interval] IN
                 IF c.wait <= max_wait THEN [c EXCEPT !.pc = "flush"]
                 ELSE Raise(c, "UnboundLocalError")
            ELSE Raise(call[w], "DeviceSchedulerBusy")]
    /\ UNCHANGED <<store, scope, special_lb_name_prefix, op, buildvars, ports>>

\* lines 317-330 with the handler inside the with-block: the transaction
\* stays open
DeadlockKeepsRow(w) ==
    /\ call[w].pc \in {"flush", "lock", "commit"}
    /\ scope.bounded => conflicts < MaxConflicts
    /\ conflicts' = IF scope.bounded THEN conflicts + 1 ELSE conflicts
    /\ \E interval \in Intervals :
         call' = [call EXCEPT ![w] =
            IF call[w].wait + interval <= max_wait
            THEN LET c == [call[w] EXCEPT !.wait = @ + interval] IN
                 IF c.wait <= max_wait THEN [c EXCEPT !.pc = "flush"]
                 ELSE Raise(c, "UnboundLocalError")
            ELSE Raise(call[w], "DeviceSchedulerBusy")]
    /\ UNCHANGED <<store, pending, scope, special_lb_name_prefix, op, buildvars, ports>>

\* lines 317-330: the interval is drawn anew at every DBDeadlock
Deadlock(w) == \E interval \in Intervals : DeadlockAfter(w, interval)

\* resolve was called by itself: the caller has the result; the worker
\* takes its next request
Finish(w) ==
    /\ op[w].pc = "idle"
    /\ call[w].pc = "done"
    /\ call' = [call EXCEPT ![w] = Idle]
    /\ UNCHANGED <<store, pending, conflicts, scope, special_lb_name_prefix, op, buildvars, ports>>

\* ------------------------------------------------- the manager methods

\* a worker without a call takes a request
Starts(w) == w \in scope.workers /\ op[w].pc = "idle" /\ call[w].pc = "idle"

\* a method ends: it returns, or the caller gets an exception
Returns(o) == [o EXCEPT !.pc = "done", !.outcome = "returned"]
Raises(o, first, last) == [o EXCEPT !.pc = "done", !.raised = first, !.outcome = last]

\* the method reaches one of its steps: the validators, the call of
\* resolve, the calls of the core plugin for a port, the call of the
\* service builder, the call of agent_rpc, the calls of update_status
Step(o, name) == [o EXCEPT !.steps = Append(@, name)]

\* lines 139-147 with the update of the load balancer left out
HandleEntityErrorEntityOnly(o, model, lb_id) ==
    [o EXCEPT !.marked = @ \cup (IF model # "none" THEN {model} ELSE {})]

\* lines 139-147: _handle_entity_error; status is ERROR, no caller passes
\* another
HandleEntityError(o, model, lb_id) ==
    [Step(o, "update_status")
       EXCEPT !.marked = @ \cup (IF lb_id # "none" THEN {LoadBalancer} ELSE {})
                           \cup (IF model # "none" THEN {model} ELSE {})]

\* the except clause around the body of a method, e raised in the body.
\* LoadBalancerManager (lines 517-520): _handle_entity_error(context,
\* loadbalancer.id); raise e.  The six other managers (lines 648-652):
\* _handle_entity_error(context, x.id, loadbalancer_id=lb.id); raise e, and
\* lb.id raises AttributeError when lb is None.  ACLGroupManager (lines
\* 1360-1370, 1468-1475): raise ACLBindError or ACLGroupUpdateError.
Except(o, e, lb_id) ==
    IF o.kind = LoadBalancer
    THEN Raises(HandleEntityError(o, o.kind, "none"), e, e)
    ELSE IF o.kind = ACLGroup
    THEN Raises(o, e, IF o.method = UpdateAclGroup
                      THEN "ACLGroupUpdateError" ELSE "ACLBindError")
    ELSE IF ~o.attached
    THEN Raises(o, e, "AttributeError")
    ELSE Raises(HandleEntityError(o, o.kind, lb_id), e, e)

\* lines 446-456, 523-533, 553-560: create, update and delete of
\* LoadBalancerManager up to the call of resolve; create and update run
\* the validators inside the try
LoadBalancerBegin(w) ==
    /\ Starts(w)
    /\ \E m \in Crud, valid \in Results :
         /\ Request(LoadBalancer, m) \in scope.requests
         /\ (m = "delete") => (valid = "ok")
         /\ op' = [op EXCEPT ![w] =
              LET n == [NoOp EXCEPT !.kind = LoadBalancer, !.method = m]
                  o == IF m = "delete" THEN n ELSE Step(n, "validate")
              IN  IF valid = "ok"
                  THEN [Step(o, "resolve") EXCEPT !.pc = "resolve", !.resolves = 1]
                  ELSE Except(o, "ValidationError", "none")]
    /\ UNCHANGED <<store, pending, call, conflicts, scope, special_lb_name_prefix, buildvars, ports>>

\* lines 173-190 as called from 639-647, 664 and their likes: the methods
\* of the six other managers, create of MemberManager apart, up to the
\* call of resolve.  attached_to_loadbalancer() walks the chain that gave
\* lb: it is false exactly when lb is None.
EntityBegin(w) ==
    /\ Starts(w)
    /\ \E k \in Models, m \in Crud, att \in scope.attachments :
         /\ Request(k, m) \in scope.requests
         /\ ~(k = "MemberV2" /\ m = "create")
         /\ op' = [op EXCEPT ![w] =
              LET o == [NoOp EXCEPT !.kind = k, !.method = m, !.attached = att] IN
              IF att THEN [Step(o, "resolve") EXCEPT !.pc = "resolve", !.resolves = 1]
              ELSE Except(o, "F5NoAttachedLoadbalancerException", "none")]
    /\ UNCHANGED <<store, pending, call, conflicts, scope, special_lb_name_prefix, buildvars, ports>>

\* the port that create of the member of w makes on a subnet: its
\* device_id is the id of the member (line 903)
NoPort == <<>>
PortOf(w, subnet) == <<w, subnet>>

\* lines 870-878: get_ports_count with the filters of line 870: the ports
\* of this driver on the subnet of the member
PortsCount(subnet) == Cardinality({p \in ports : p[2] = subnet})

\* lines 846-881: MemberManager.create up to the count of the ports: the
\* tenant test, then get_ports_count.  Both come before the try.
MemberCreateBegin(w) ==
    /\ Starts(w)
    /\ Request("MemberV2", "create") \in scope.requests
    /\ \E att \in scope.attachments, same_tenant \in BOOLEAN, shared \in BOOLEAN,
          subnet \in scope.subnets :
         op' = [op EXCEPT ![w] =
            LET o == Step([NoOp EXCEPT !.kind = "MemberV2", !.method = "create",
                                       !.attached = att, !.subnet = subnet],
                          "validate")
            IN  IF ~same_tenant /\ ~shared THEN Raises(o, "Exception", "Exception")
                ELSE [o EXCEPT !.all_ports = PortsCount(subnet), !.pc = "counted"]]
    /\ UNCHANGED <<store, pending, call, conflicts, scope, special_lb_name_prefix, buildvars, ports>>

\* lines 883-934 with the ports counted again where the port is created
MemberCreatePortCountsAgain(w) ==
    /\ op[w].pc = "counted"
    /\ \E a \in AgentSchedule, port \in Results :
         LET o == op[w]
             creates == PortsCount(o.subnet) < 1
             selects == creates /\ o.attached
             o1 == IF selects THEN [Step(o, "schedule") EXCEPT !.agent_calls = 1]
                   ELSE o
             o2 == IF creates THEN Step(o1, "create_port") ELSE o1
             o3 == IF creates
                   THEN [o2 EXCEPT !.the_port_id = PortOf(w, o.subnet)] ELSE o2
         IN  IF selects /\ a = "error"
             THEN /\ op' = [op EXCEPT ![w] =
                       Raises(o1, "AgentSchedulerError", "AgentSchedulerError")]
                  /\ UNCHANGED ports
             ELSE IF creates /\ port = "error"
             THEN /\ op' = [op EXCEPT ![w] = Raises(o2, "PortError", "PortError")]
                  /\ UNCHANGED ports
             ELSE /\ ports' = IF creates THEN ports \cup {PortOf(w, o.subnet)}
                              ELSE ports
                  /\ op' = [op EXCEPT ![w] =
                       IF o.attached
                       THEN [Step(o3, "resolve") EXCEPT !.pc = "resolve", !.resolves = 1]
                       ELSE Except(o3, "F5NoAttachedLoadbalancerException", "none")]
    /\ UNCHANGED <<store, pending, call, conflicts, scope, special_lb_name_prefix, buildvars>>

\* lines 883-934: MemberManager.create from the count of the ports to the
\* call of resolve.  Without a port of this driver on the subnet it asks
\* the agent selector for a host and creates a port; both come before the
\* try.  The port is kept as the_port_id and handed to _call_rpc.
MemberCreatePort(w) ==
    /\ op[w].pc = "counted"
    /\ \E a \in AgentSchedule, port \in Results :
         LET o == op[w]
             creates == o.all_ports < 1
             selects == creates /\ o.attached
             o1 == IF selects THEN [Step(o, "schedule") EXCEPT !.agent_calls = 1]
                   ELSE o
             o2 == IF creates THEN Step(o1, "create_port") ELSE o1
             o3 == IF creates
                   THEN [o2 EXCEPT !.the_port_id = PortOf(w, o.subnet)] ELSE o2
         IN  IF selects /\ a = "error"
             THEN /\ op' = [op EXCEPT ![w] =
                       Raises(o1, "AgentSchedulerError", "AgentSchedulerError")]
                  /\ UNCHANGED ports
             ELSE IF creates /\ port = "error"
             THEN /\ op' = [op EXCEPT ![w] = Raises(o2, "PortError", "PortError")]
                  /\ UNCHANGED ports
             ELSE /\ ports' = IF creates THEN ports \cup {PortOf(w, o.subnet)}
                              ELSE ports
                  /\ op' = [op EXCEPT ![w] =
                       IF o.attached
                       THEN [Step(o3, "resolve") EXCEPT !.pc = "resolve", !.resolves = 1]
                       ELSE Except(o3, "F5NoAttachedLoadbalancerException", "none")]
    /\ UNCHANGED <<store, pending, call, conflicts, scope, special_lb_name_prefix, buildvars>>

\* lines 1322-1344 and 1372-1395 without the test of the provider
AclBindBeginAnyProvider(w) ==
    /\ Starts(w)
    /\ \E m \in AclBinds, match \in BOOLEAN :
         /\ Request(ACLGroup, m) \in scope.requests
         /\ op' = [op EXCEPT ![w] =
              [NoOp EXCEPT !.kind = ACLGroup, !.method = m,
                           !.matching = IF match THEN 1 ELSE 0,
                           !.pc = "resolve", !.resolves = 1]]
    /\ UNCHANGED <<store, pending, call, conflicts, scope, special_lb_name_prefix, buildvars, ports>>

\* lines 1322-1344 and 1372-1395: add_acl_bind and remove_acl_bind up to
\* the call of resolve; a load balancer of another provider: return
AclBindBegin(w) ==
    /\ Starts(w)
    /\ \E m \in AclBinds, match \in BOOLEAN :
         /\ Request(ACLGroup, m) \in scope.requests
         /\ op' = [op EXCEPT ![w] =
              LET o == [NoOp EXCEPT !.kind = ACLGroup, !.method = m,
                                    !.matching = IF match THEN 1 ELSE 0] IN
              IF match THEN [o EXCEPT !.pc = "resolve", !.resolves = 1]
              ELSE Returns(o)]
    /\ UNCHANGED <<store, pending, call, conflicts, scope, special_lb_name_prefix, buildvars, ports>>

\* lines 1423-1451: update_acl_group up to the first call of resolve; n of
\* the load balancers of the list are of this driver's provider, the
\* others are dropped; none left: return
AclUpdateBegin(w) ==
    /\ Starts(w)
    /\ Request(ACLGroup, UpdateAclGroup) \in scope.requests
    /\ \E n \in 0..MaxBatch :
         op' = [op EXCEPT ![w] =
            LET o == [NoOp EXCEPT !.kind = ACLGroup, !.method = UpdateAclGroup,
                                  !.matching = n, !.todo = n] IN
            IF n = 0 THEN Returns(o)
            ELSE [o EXCEPT !.pc = "resolve", !.resolves = 1]]
    /\ UNCHANGED <<store, pending, call, conflicts, scope, special_lb_name_prefix, buildvars, ports>>

\* resolve has ended in the method that called it
Resolved(w) == op[w].pc = "resolve" /\ call[w].pc = "done"

\* line 562 taking every result of resolve for a binding
HasBindingAlways(c) == TRUE

\* line 562: if agent and device
HasBinding(c) == c.ret_agent # NoAgent /\ c.ret_device # NoDevice

\* lines 458-514 with the service built before the port of the VIP is
\* updated
LoadBalancerCreateBuildsFirst(o, none, port, build) ==
    LET b == [Step(o, "build") EXCEPT !.built = 1] IN
    IF none THEN Except(o, "TypeError", "none")
    ELSE IF build = "error" THEN Except(b, "BuilderError", "none")
    ELSE IF port = "error" THEN Except(Step(b, "update_port"), "PortError", "none")
    ELSE [Step(b, "update_port") EXCEPT !.pc = "dispatch"]

\* lines 458-514: LoadBalancerManager.create from the result of resolve
\* to the call of agent_rpc: agent['host'], update_port for the VIP, then
\* _create_service
LoadBalancerCreateTail(o, none, port, build) ==
    LET p == Step(o, "update_port")
        b == [Step(p, "build") EXCEPT !.built = 1]
    IN  IF none THEN Except(o, "TypeError", "none")
        ELSE IF port = "error" THEN Except(p, "PortError", "none")
        ELSE IF build = "error" THEN Except(b, "BuilderError", "none")
        ELSE [b EXCEPT !.pc = "dispatch"]

\* lines 458-572 with the binding of the load balancer deleted when the
\* method fails after resolve
LoadBalancerResolvedRollsBack(w) ==
    /\ Resolved(w)
    /\ op[w].kind = LoadBalancer
    /\ \E port \in Results, build \in Results :
         op' = [op EXCEPT ![w] =
            LET o == op[w]
                c == call[w]
                b == [Step(o, "build") EXCEPT !.built = 1]
                none == c.ret_agent = NoAgent
            IN  IF c.outcome # "returned" THEN Except(o, c.outcome, "none")
                ELSE IF o.method = "create"
                THEN LoadBalancerCreateTail(o, none, port, build)
                ELSE IF o.method = "update"
                THEN IF build = "error" THEN Except(b, "BuilderError", "none")
                     ELSE IF none THEN Except(b, "TypeError", "none")
                     ELSE [b EXCEPT !.pc = "dispatch"]
                ELSE IF HasBinding(c)
                THEN IF build = "error" THEN Except(b, "BuilderError", "none")
                     ELSE [b EXCEPT !.pc = "dispatch"]
                ELSE Returns([o EXCEPT !.deleted = TRUE])]
    /\ store' = IF op'[w].pc = "done" /\ op'[w].outcome # "returned"
                THEN store \ RowsOf(call[w].lb) ELSE store
    /\ UNCHANGED <<pending, call, conflicts, scope, special_lb_name_prefix, buildvars, ports>>

\* lines 458-514, 534-538, 560-572: LoadBalancerManager from the result of
\* resolve to the call of agent_rpc.  agent['host'] raises TypeError when
\* agent is None.  delete without a binding deletes the load balancer from
\* the database and returns.
LoadBalancerResolved(w) ==
    /\ Resolved(w)
    /\ op[w].kind = LoadBalancer
    /\ \E port \in Results, build \in Results :
         op' = [op EXCEPT ![w] =
            LET o == op[w]
                c == call[w]
                b == [Step(o, "build") EXCEPT !.built = 1]
                none == c.ret_agent = NoAgent
            IN  IF c.outcome # "returned" THEN Except(o, c.outcome, "none")
                ELSE IF o.method = "create"
                THEN LoadBalancerCreateTail(o, none, port, build)
                ELSE IF o.method = "update"
                THEN IF build = "error" THEN Except(b, "BuilderError", "none")
                     ELSE IF none THEN Except(b, "TypeError", "none")
                     ELSE [b EXCEPT !.pc = "dispatch"]
                ELSE IF HasBinding(c)
                THEN IF build = "error" THEN Except(b, "BuilderError", "none")
                     ELSE [b EXCEPT !.pc = "dispatch"]
                ELSE Returns([o EXCEPT !.deleted = TRUE])]
    /\ UNCHANGED <<store, pending, call, conflicts, scope, special_lb_name_prefix, buildvars, ports>>

\* lines 183-188: _setup_crud of the six other managers from the result
\* of resolve on
EntityResolved(w) ==
    /\ Resolved(w)
    /\ op[w].kind \in Models
    /\ \E build \in Results :
         op' = [op EXCEPT ![w] =
            LET o == op[w]
                c == call[w]
                b == [Step(o, "build") EXCEPT !.built = 1]
            IN  IF c.outcome # "returned" THEN Except(o, c.outcome, c.lb)
                ELSE IF build = "error" THEN Except(b, "BuilderError", c.lb)
                ELSE IF c.ret_agent = NoAgent THEN Except(b, "TypeError", c.lb)
                ELSE [b EXCEPT !.pc = "dispatch"]]
    /\ UNCHANGED <<store, pending, call, conflicts, scope, special_lb_name_prefix, buildvars, ports>>

\* line 1453 adding an item to a list instead of a dict
SetItemAppend(dict, entry) == dict \cup {entry}

\* line 1453 as dict.setdefault: the first item of a key stays
SetItemKeepFirst(dict, entry) ==
    IF \E e \in dict : e.device = entry.device THEN dict ELSE dict \cup {entry}

\* line 1453 with the agent_host of the first item of a key kept
SetItemKeepsHost(dict, entry) ==
    {e \in dict : e.device # entry.device}
        \cup {[entry EXCEPT !.agent_host =
                  IF \E e \in dict : e.device = entry.device
                  THEN (CHOOSE e \in dict : e.device = entry.device).agent_host
                  ELSE @]}

\* lines 1453-1455: service_devices[device id] = item
SetItem(dict, entry) == {e \in dict : e.device # entry.device} \cup {entry}

\* what line 1455 keeps of one load balancer: the host of its agent and
\* the service dict of lines 1313-1319, which names it and its device
Item(c) == [device |-> c.ret_device, agent_host |-> c.ret_agent, lb |-> c.lb]

\* lines 1444-1467 with the call of agent_rpc inside the first loop: the
\* method sends after each resolve
AclResolvedSendsEarly(w) ==
    /\ Resolved(w)
    /\ op[w].kind = ACLGroup
    /\ LET o == op[w]
           c == call[w]
           o1 == [o EXCEPT !.batch = Append(@, Item(c)),
                           !.service_devices = SetItem(@, Item(c)),
                           !.todo = @ - 1]
       IN  IF c.outcome # "returned"
           THEN op' = [op EXCEPT ![w] = Except(o, c.outcome, "none")]
           ELSE IF c.ret_agent = NoAgent
           THEN op' = [op EXCEPT ![w] = Except(o, "TypeError", "none")]
           ELSE IF o.method \in AclBinds
           THEN op' = [op EXCEPT ![w].pc = "dispatch"]
           ELSE op' = [op EXCEPT ![w] = [o1 EXCEPT !.pc = "dispatch"]]
    /\ UNCHANGED <<store, pending, call, conflicts, scope, special_lb_name_prefix, buildvars, ports>>

\* lines 1315-1320 and 1341-1348, 1392-1399, 1444-1455: ACLGroupManager
\* from the result of resolve on.  No service is built.  update_acl_group
\* puts the result into service_devices and resolves the next load
\* balancer of the list.
AclResolved(w) ==
    /\ Resolved(w)
    /\ op[w].kind = ACLGroup
    /\ LET o == op[w]
           c == call[w]
           o1 == [o EXCEPT !.batch = Append(@, Item(c)),
                           !.service_devices = SetItem(@, Item(c)),
                           !.todo = @ - 1]
       IN  IF c.outcome # "returned"
           THEN /\ op' = [op EXCEPT ![w] = Except(o, c.outcome, "none")]
                /\ UNCHANGED call
           ELSE IF c.ret_agent = NoAgent
           THEN /\ op' = [op EXCEPT ![w] = Except(o, "TypeError", "none")]
                /\ UNCHANGED call
           ELSE IF o.method \in AclBinds
           THEN /\ op' = [op EXCEPT ![w].pc = "dispatch"]
                /\ UNCHANGED call
           ELSE IF o1.todo > 0
           THEN /\ op' = [op EXCEPT ![w] = [o1 EXCEPT !.resolves = @ + 1]]
                /\ call' = [call EXCEPT ![w] = Idle]
           ELSE /\ op' = [op EXCEPT ![w] = [o1 EXCEPT !.pc = "dispatch"]]
                /\ UNCHANGED call
    /\ UNCHANGED <<store, pending, conflicts, scope, special_lb_name_prefix, buildvars, ports>>

\* one call of agent_rpc: the method called, the host it is sent to, the
\* device and the load balancer of the service it carries, and whether the
\* call returned
Rpc(o, item, r) ==
    [ rpc |-> Request(o.kind, o.method), agent_host |-> item.agent_host,
      device |-> item.device, lb |-> item.lb, the_port_id |-> o.the_port_id,
      ok |-> (r = "ok") ]

\* lines 162-168, 515-516 and their likes with the error of agent_rpc
\* caught and dropped
DispatchSwallows(w) ==
    /\ op[w].pc = "dispatch"
    /\ op[w].method # UpdateAclGroup
    /\ \E r \in Results :
         op' = [op EXCEPT ![w] =
            Returns([op[w] EXCEPT !.sent = Append(@, Rpc(op[w], Item(call[w]), r))])]
    /\ UNCHANGED <<store, pending, call, conflicts, scope, special_lb_name_prefix, buildvars, ports>>

\* lines 162-168 (_call_rpc), 515-516, 540-546, 568-569, 665-672 and their
\* likes, 1352-1359, 1403-1410: the one call of agent_rpc of a method
Dispatch(w) ==
    /\ op[w].pc = "dispatch"
    /\ op[w].method # UpdateAclGroup
    /\ \E r \in Results :
         op' = [op EXCEPT ![w] =
            LET o == [Step(op[w], "dispatch")
                        EXCEPT !.sent = Append(@, Rpc(op[w], Item(call[w]), r))] IN
            IF r = "ok" THEN Returns(o) ELSE Except(o, "RpcError", call[w].lb)]
    /\ UNCHANGED <<store, pending, call, conflicts, scope, special_lb_name_prefix, buildvars, ports>>

\* the items of service_devices that the loop of line 1457 has not reached
Unsent(o) ==
    {e \in o.service_devices :
        \A i \in 1..Len(o.sent) :
            <<o.sent[i].device, o.sent[i].lb>> # <<e.device, e.lb>>}

\* lines 1457-1467 with the error of agent_rpc kept until the loop ends
AclUpdateDispatchGoesOn(w) ==
    /\ op[w].pc = "dispatch"
    /\ op[w].method = UpdateAclGroup
    /\ \E e \in Unsent(op[w]), r \in Results :
         op' = [op EXCEPT ![w] =
            LET o == [op[w] EXCEPT !.sent = Append(@, Rpc(op[w], e, r))] IN
            IF Unsent(o) # {} THEN o
            ELSE IF \E i \in 1..Len(o.sent) : ~o.sent[i].ok
            THEN Except(o, "RpcError", "none")
            ELSE Returns(o)]
    /\ UNCHANGED <<store, pending, call, conflicts, scope, special_lb_name_prefix, buildvars, ports>>

\* lines 1457-1467: one turn of the loop over service_devices.values(), in
\* the order of the dict, which is any order
AclUpdateDispatch(w) ==
    /\ op[w].pc = "dispatch"
    /\ op[w].method = UpdateAclGroup
    /\ \E e \in Unsent(op[w]), r \in Results :
         op' = [op EXCEPT ![w] =
            LET o == [op[w] EXCEPT !.sent = Append(@, Rpc(op[w], e, r))] IN
            IF r = "error" THEN Except(o, "RpcError", "none")
            ELSE IF Unsent(o) = {} THEN Returns(o)
            ELSE o]
    /\ UNCHANGED <<store, pending, call, conflicts, scope, special_lb_name_prefix, buildvars, ports>>

\* the caller has the result of the method; the worker takes its next
\* request
Respond(w) ==
    /\ op[w].pc = "done"
    /\ op' = [op EXCEPT ![w] = NoOp]
    /\ call' = [call EXCEPT ![w] = Idle]
    /\ UNCHANGED <<store, pending, conflicts, scope, special_lb_name_prefix, buildvars, ports>>

\* ------------------------------------------- the building of a service

\* line 747 walking the listeners of every load balancer
ListenersOfAny(lb) == Listeners

\* loadbalancer.listeners and loadbalancer.pools
ListenersOf(lb) ==
    LET Mine(l) == db.listeners[l].loadbalancer_id = lb IN SelectSeq(Listeners, Mine)
PoolsOf(lb) ==
    LET Mine(p) == db.pools[p].loadbalancer_id = lb IN SelectSeq(Pools, Mine)

\* lines 355-360, 384-389: get_db_listener and get_db_pool: the object
\* itself in mode 3, otherwise the row that plugin.db has under its id
GetDb(rows, id) ==
    IF f5_driver_perf_mode = 3 THEN id ELSE CHOOSE x \in DOMAIN rows : x = id

\* [{'id': x.id} for x in list]
IdDicts(ids) == [i \in 1..Len(ids) |-> [id |-> ids[i]]]

\* lines 349-376 with the default pool appended as a pool of the service
AppendListenersWithPool(service, listener) ==
    IF listener = None THEN service
    ELSE LET row == db.listeners[listener]
             d1 == Put([id |-> GetDb(db.listeners, listener)],
                       "l7_policies", IdDicts(row.l7_policies))
         IN  IF row.default_pool # None
             THEN [service EXCEPT
                     !.listeners = Append(@, Put(d1, "default_pool_id", row.default_pool)),
                     !.pools = Append(@, [id |-> row.default_pool])]
             ELSE [service EXCEPT !.listeners = Append(@, d1)]

\* lines 349-376: _append_listeners.  to_dict gives the fields of the
\* listener itself, here its id.
AppendListeners(service, listener) ==
    IF listener = None THEN service
    ELSE LET row == db.listeners[listener]
             d1 == Put([id |-> GetDb(db.listeners, listener)],
                       "l7_policies", IdDicts(row.l7_policies))
             listener_dict == IF row.default_pool # None
                              THEN Put(d1, "default_pool_id", row.default_pool)
                              ELSE d1
         IN  [service EXCEPT !.listeners = Append(@, listener_dict)]

\* lines 378-432 with the health monitor stamped with its own id
AppendPoolsMonitorsOwnId(service, pool) ==
    IF pool = None THEN service
    ELSE LET row == db.pools[pool]
             d1 == Put([id |-> GetDb(db.pools, pool)], "members", IdDicts(row.members))
             d2 == Put(d1, "l7_policies", IdDicts(row.l7_policies))
             pool_dict == IF row.session_persistence # <<>>
                          THEN Put(d2, "session_persistence",
                                   [type |-> row.session_persistence[1]])
                          ELSE d2
             s1 == [service EXCEPT !.pools = Append(@, pool_dict)]
         IN  IF row.healthmonitor = None THEN s1
             ELSE [s1 EXCEPT !.healthmonitors =
                      Append(@, Put([id |-> row.healthmonitor],
                                    "pool_id", row.healthmonitor))]

\* lines 378-432: _append_pools_monitors.  to_dict gives the fields of the
\* pool, and of the health monitor, here the id.
AppendPoolsMonitors(service, pool) ==
    IF pool = None THEN service
    ELSE LET row == db.pools[pool]
             d1 == Put([id |-> GetDb(db.pools, pool)], "members", IdDicts(row.members))
             d2 == Put(d1, "l7_policies", IdDicts(row.l7_policies))
             pool_dict == IF row.session_persistence # <<>>
                          THEN Put(d2, "session_persistence",
                                   [type |-> row.session_persistence[1]])
                          ELSE d2
             s1 == [service EXCEPT !.pools = Append(@, pool_dict)]
         IN  IF row.healthmonitor = None THEN s1
             ELSE [s1 EXCEPT !.healthmonitors =
                      Append(@, Put([id |-> row.healthmonitor], "pool_id", pool))]

\* lines 640-643 and their likes: the keyword arguments of _call_rpc and
\* _setup_crud that reach service_builder.build
Closures == {"append_listeners", "append_pools_monitors", "append_l7policies_rules"}

\* lines 634, 698 and their likes with update handing its functions over too
IncrementalWithUpdate(kind, method) ==
    f5_driver_perf_mode \in {2, 3} /\ kind \in Models

\* lines 634, 698 and their likes: the methods that hand their own
\* append_listeners and append_pools_monitors to the builder
Incremental(kind, method) ==
    f5_driver_perf_mode \in {2, 3} /\ kind \in Models /\ method \in {"create", "delete"}

\* the listeners that the builder appends: those that append_listeners of
\* the method names (lines 624-625, 746-752, 980, 1108-1109), or, without
\* one, the listeners of the load balancer
ListenerHints(kind, method, entity, lb) ==
    IF ~Incremental(kind, method) THEN ListenersOf(lb)
    ELSE IF kind \in {"Listener", "L7Policy", "L7Rule"} THEN <<entity>>
    ELSE IF kind = "PoolV2"
    THEN LET Default(l) == /\ db.listeners[l].default_pool # None
                           /\ db.listeners[l].default_pool = entity
         IN  SelectSeq(ListenersOf(lb), Default)
    ELSE <<>>

\* the pools that the builder appends: those that append_pools_monitors of
\* the method names (lines 627-632, 754-755, 974-975, 1111-1113), or,
\* without one, the pools of the load balancer
PoolHints(kind, method, entity, lb) ==
    IF ~Incremental(kind, method) THEN PoolsOf(lb)
    ELSE IF kind = "Listener"
    THEN LET Default(p) == p = db.listeners[entity].default_pool
             found == SelectSeq(PoolsOf(lb), Default)
         IN  IF method = "create" /\ db.listeners[entity].default_pool # None
                /\ found # <<>>
             THEN <<Head(found)>> ELSE <<>>
    ELSE IF kind \in {"L7Policy", "L7Rule"} THEN <<db.listeners[entity].default_pool>>
    ELSE <<entity>>

\* a method of a manager has got the agent and the device of its load
\* balancer and goes on to build the service.  The entity is named by the
\* listener or the pool that the method reaches it from.
BuildRequest ==
    /\ builder.pc = "idle"
    /\ \E r \in scope.requests, e \in {"l1", "l2", "l3", "p1", "p2"} \cup scope.lbs,
          d \in Devices :
         LET lb == IF r.kind = LoadBalancer THEN e
                   ELSE IF e \in DOMAIN db.listeners
                   THEN db.listeners[e].loadbalancer_id
                   ELSE db.pools[e].loadbalancer_id
             create == r.kind = LoadBalancer /\ r.method = "create"
         IN  /\ (r.kind = LoadBalancer) <=> (e \in scope.lbs)
             /\ (r.kind \in {"Listener", "L7Policy", "L7Rule"}) <=> (e \in DOMAIN db.listeners)
             /\ (r.kind = "HealthMonitorV2") => (db.pools[e].healthmonitor # None)
             /\ (r.kind = "L7Policy" \/ r.kind = "L7Rule")
                => (db.listeners[e].l7_policies # <<>>)
             /\ ~create => d = [id |-> Dev1, masquerade_mac |-> "fa:16:3e",
                                local_link_information |-> <<Link1>>]
             /\ builder' = [NoBuild EXCEPT
                    !.kind = r.kind, !.method = r.method, !.entity = e,
                    !.loadbalancer = lb, !.given = d, !.device = d,
                    !.kwargs = IF Incremental(r.kind, r.method) THEN Closures ELSE {},
                    !.hints = [listeners |-> ListenerHints(r.kind, r.method, e, lb),
                               pools |-> PoolHints(r.kind, r.method, e, lb)],
                    !.pc = IF create THEN "update_port" ELSE "create_service"]
    /\ UNCHANGED <<store, pending, call, conflicts, scope, special_lb_name_prefix, op, ports,
                   db, f5_driver_perf_mode>>

\* lines 480-508 with the first link alone handed to the port
UpdatePortFirstLink ==
    /\ builder.pc = "update_port"
    /\ LET vip_masq_mac == builder.device.masquerade_mac
           llinfo == builder.device.local_link_information
           link_info == IF llinfo # <<>> THEN llinfo[1] ELSE <<>>
       IN  builder' = [builder EXCEPT !.port = <<Put(link_info, "lb_mac", vip_masq_mac)>>,
                                  !.pc = "create_service"]
    /\ UNCHANGED <<store, pending, call, conflicts, scope, special_lb_name_prefix, op, ports,
                   db, f5_driver_perf_mode>>

\* lines 480-508: LoadBalancerManager.create makes the profile of the port
\* of the VIP.  link_info is the first dict of the device's list itself,
\* not a copy: update() changes the device that the service will carry.
UpdatePort ==
    /\ builder.pc = "update_port"
    /\ LET vip_masq_mac == builder.device.masquerade_mac
           given == builder.device.local_link_information
           link_info == IF given # <<>> THEN given[1] ELSE <<>>
           updated == Put(link_info, "lb_mac", vip_masq_mac)
           llinfo == IF given # <<>> THEN [given EXCEPT ![1] = updated]
                     ELSE <<updated>>
       IN  builder' = [builder EXCEPT
                !.port = llinfo,
                !.device = IF given # <<>>
                           THEN [@ EXCEPT !.local_link_information = llinfo] ELSE @,
                !.pc = "create_service"]
    /\ UNCHANGED <<store, pending, call, conflicts, scope, special_lb_name_prefix, op, ports,
                   db, f5_driver_perf_mode>>

\* lines 337-347 with the builder filling the dict of the call before
CreateServiceOnOld ==
    /\ builder.pc = "create_service"
    /\ builder' = [builder EXCEPT
            !.service = [listeners |-> builder.service.listeners,
                         pools |-> builder.service.pools,
                         healthmonitors |-> builder.service.healthmonitors,
                         loadbalancer |-> builder.loadbalancer],
            !.todo = builder.hints, !.pc = "append_listeners"]
    /\ UNCHANGED <<store, pending, call, conflicts, scope, special_lb_name_prefix, op, ports,
                   db, f5_driver_perf_mode>>

\* lines 337-347: _create_service calls the builder, which begins a new
\* dict for the load balancer
CreateService ==
    /\ builder.pc = "create_service"
    /\ builder' = [builder EXCEPT
            !.service = [NoService EXCEPT !.loadbalancer = builder.loadbalancer],
            !.todo = builder.hints, !.pc = "append_listeners"]
    /\ UNCHANGED <<store, pending, call, conflicts, scope, special_lb_name_prefix, op, ports,
                   db, f5_driver_perf_mode>>

\* the builder appends the next listener, or has appended them all
CallAppendListeners ==
    /\ builder.pc = "append_listeners"
    /\ builder' = IF builder.todo.listeners = <<>>
                THEN [builder EXCEPT !.pc = "append_pools_monitors"]
                ELSE [builder EXCEPT
                        !.service = AppendListeners(@, Head(builder.todo.listeners)),
                        !.todo.listeners = Tail(@)]
    /\ UNCHANGED <<store, pending, call, conflicts, scope, special_lb_name_prefix, op, ports,
                   db, f5_driver_perf_mode>>

\* the builder appends the next pool, or has appended them all
CallAppendPoolsMonitors ==
    /\ builder.pc = "append_pools_monitors"
    /\ builder' = IF builder.todo.pools = <<>>
                THEN [builder EXCEPT !.pc = "set_device"]
                ELSE [builder EXCEPT
                        !.service = AppendPoolsMonitors(@, Head(builder.todo.pools)),
                        !.todo.pools = Tail(@)]
    /\ UNCHANGED <<store, pending, call, conflicts, scope, special_lb_name_prefix, op, ports,
                   db, f5_driver_perf_mode>>

\* lines 187, 513: service["device"] = device; the service is ready
SetDevice ==
    /\ builder.pc = "set_device"
    /\ builder' = [builder EXCEPT
            !.services = Append(@, Put(builder.service, "device", builder.device)),
            !.pc = "built"]
    /\ UNCHANGED <<store, pending, call, conflicts, scope, special_lb_name_prefix, op, ports,
                   db, f5_driver_perf_mode>>

\* the next method for the same load balancer, agent and device builds
\* the service again; nothing has changed in plugin.db
BuildAgain ==
    /\ builder.pc = "built"
    /\ Len(builder.services) < 2
    /\ builder' = [builder EXCEPT !.pc = "create_service"]
    /\ UNCHANGED <<store, pending, call, conflicts, scope, special_lb_name_prefix, op, ports,
                   db, f5_driver_perf_mode>>

\* the services are sent; the next request
BuildRespond ==
    /\ builder.pc = "built"
    /\ builder' = NoBuild
    /\ UNCHANGED <<store, pending, call, conflicts, scope, special_lb_name_prefix, op, ports,
                   db, f5_driver_perf_mode>>

Next ==
    \E w \in Workers :
        \/ Lookup(w)
        \/ Reschedule(w)
        \/ UpdateBinding(w)
        \/ LoadDevice(w)
        \/ ScheduleAgent(w)
        \/ Flush(w)
        \/ LockPlaceholders(w)
        \/ ScheduleDevice(w)
        \/ Commit(w)
        \/ Deadlock(w)
        \/ Finish(w)
        \/ LoadBalancerBegin(w)
        \/ EntityBegin(w)
        \/ MemberCreateBegin(w)
        \/ MemberCreatePort(w)
        \/ AclBindBegin(w)
        \/ AclUpdateBegin(w)
        \/ LoadBalancerResolved(w)
        \/ EntityResolved(w)
        \/ AclResolved(w)
        \/ Dispatch(w)
        \/ AclUpdateDispatch(w)
        \/ Respond(w)

Spec == Init /\ [][Next]_vars

SpecSequential == InitIn({Sequential}) /\ [][Next]_vars
SpecRace == InitIn({Race}) /\ [][Next]_vars
SpecBusy == InitIn({Busy}) /\ [][Next]_vars

\* the steps of resolve, called by itself
NextResolve ==
    \E w \in Workers :
        \/ Lookup(w)
        \/ Reschedule(w)
        \/ UpdateBinding(w)
        \/ LoadDevice(w)
        \/ ScheduleAgent(w)
        \/ Flush(w)
        \/ LockPlaceholders(w)
        \/ ScheduleDevice(w)
        \/ Commit(w)
        \/ Deadlock(w)
        \/ Finish(w)

\* A worker inside resolve runs on: the statement it has reached is
\* executed unless the store raises DBDeadlock first.  The INSERT of line
\* 295 waits in the lock queue of the store, which serves every waiter.
\* random.uniform(0, 1.0) draws a positive interval again and again: runs
\* in which all the draws from some point on are zero have probability 0.
LeaseFairness ==
    \A w \in Workers :
        /\ WF_vars(Reschedule(w) \/ UpdateBinding(w) \/ LoadDevice(w)
                     \/ ScheduleAgent(w) \/ LockPlaceholders(w)
                     \/ ScheduleDevice(w) \/ Commit(w))
        /\ SF_vars(Flush(w))
        /\ SF_vars(DeadlockAfter(w, MaxInterval))

\* the building of services by itself: every graph of listeners and pools,
\* every mode, every method
NextBuild ==
    \/ BuildRequest
    \/ UpdatePort
    \/ CreateService
    \/ CallAppendListeners
    \/ CallAppendPoolsMonitors
    \/ SetDevice
    \/ BuildAgain
    \/ BuildRespond

InitBuild ==
    /\ scope = Building
    /\ store = {}
    /\ pending = [w \in Workers |-> NoRow]
    /\ call = [w \in Workers |-> Idle]
    /\ conflicts = 0
    /\ special_lb_name_prefix = <<>>
    /\ op = [w \in Workers |-> NoOp]
    /\ db \in Graphs
    /\ f5_driver_perf_mode \in PerfModes
    /\ builder = NoBuild
    /\ ports = {}

SpecBuild == InitBuild /\ [][NextBuild]_vars

\* racing workers and a store that signals conflicts without limit, under
\* the fairness above
SpecLease == InitIn({Race, Busy}) /\ [][NextResolve]_vars /\ LeaseFairness

\* ------------------------------------------------------------- claims

Done(w) == call[w].pc = "done"
Returned(w) == Done(w) /\ call[w].outcome = "returned"
Untouched(c) == c.agent_calls = 0 /\ c.device_calls = 0 /\ c.writes = 0
DevicesOf(rows, lb) == {r.device_id : r \in RowsIn(rows, lb)}
LeasePcs == {"lock", "schedule_device", "commit"}
LoopPcs == {"flush"} \cup LeasePcs

\* C1: a resolve call that found no binding for a PENDING_CREATE load
\* balancer and returns, leaves at its return exactly one row of that load
\* balancer, holding the agent the agent selector returned and the id of
\* the device the device selector returned, and it returns that pair.
C1_CreateBindsOnce ==
    [][\A w \in Workers :
        (/\ call[w].pc # "done"
         /\ Returned(w)'
         /\ ~call'[w].found
         /\ call'[w].status = PENDING_CREATE)
        => LET c == call'[w] IN
           /\ c.agent \in Agents
           /\ c.device \in DeviceIds
           /\ c.agent_calls = 1
           /\ RowsIn(store', c.lb) = {Row(c.lb, c.agent, c.device)}
           /\ pending'[w] = NoRow
           /\ c.ret_agent = c.agent
           /\ c.ret_device = c.device]_vars

C1_Witness ==
    \E w \in Workers :
        /\ Returned(w) /\ ~call[w].found /\ call[w].status = PENDING_CREATE
        /\ RowsOf(call[w].lb) = {Row(call[w].lb, call[w].ret_agent, call[w].ret_device)}
        /\ call[w].ret_device \in DeviceIds

\* C2: whatever the interleaving of the resolve calls for one load
\* balancer, every call that returns a device returns the device id of the
\* single row the store holds for that load balancer, so that all of them
\* return the same device id.
C2_OneDevicePerLoadBalancer ==
    /\ \A w \in Workers :
         (Returned(w) /\ call[w].ret_device # NoDevice)
         => /\ Cardinality(RowsOf(call[w].lb)) = 1
            /\ DevicesOf(store, call[w].lb) = {call[w].ret_device}
    /\ \A w, v \in Workers :
         (/\ Returned(w) /\ Returned(v) /\ call[w].lb = call[v].lb
          /\ call[w].ret_device # NoDevice /\ call[v].ret_device # NoDevice)
         => call[w].ret_device = call[v].ret_device

C2_Witness ==
    \E w, v \in Workers :
        /\ w # v /\ call[w].lb = call[v].lb
        /\ Returned(w) /\ ~call[w].found /\ call[w].ret_device \in DeviceIds
        /\ Done(v) /\ ~call[v].found /\ call[v].status = PENDING_CREATE
        /\ call[v].agent_calls = 1

\* C3 as stated: a call that found no binding for a PENDING_CREATE load
\* balancer does not fail because another call committed the binding
\* first.
C3_LoserDoesNotFail ==
    \A w \in Workers :
        (Done(w) /\ ~call[w].found /\ call[w].status = PENDING_CREATE)
        => call[w].outcome # "DBDuplicateEntry"

\* C3 amended: a call that comes to insert its placeholder when another
\* call has committed the binding of the load balancer creates no second
\* lease: it inserts nothing, the device id of the committed row stays, and
\* the call ends with the duplicate-key error of the store (or, its
\* INSERT meeting a deadlock past the wait budget, with
\* DeviceSchedulerBusy) without having read the committed device id.
C3_LoserWritesNothing ==
    [][\A w \in Workers :
        (call[w].pc = "flush" /\ RowsOf(call[w].lb) # {})
        => /\ pending'[w] = NoRow
           /\ call'[w].pc \in {"flush", "done"}
           /\ DevicesOf(store', call[w].lb) = DevicesOf(store, call[w].lb)
           /\ Done(w)' =>
                /\ call'[w].outcome \in {"DBDuplicateEntry", "DeviceSchedulerBusy"}
                /\ call'[w].commits = 0
                /\ call'[w].ret_device = NoDevice]_vars

C3_Witness ==
    \E w, v \in Workers :
        /\ w # v /\ call[w].lb = call[v].lb
        /\ Returned(v) /\ ~call[v].found
        /\ Done(w) /\ ~call[w].found /\ call[w].outcome = "DBDuplicateEntry"
        /\ DevicesOf(store, call[w].lb) = {call[v].ret_device}

\* C4: in every reachable state the binding table, open transactions
\* included, holds at most one row per load balancer; the device_id of a
\* row is a device id or the placeholder, and the placeholder only in the
\* uncommitted row of a call that is leasing a device for it.
C4_OneRowPerLoadBalancer ==
    /\ \A lb \in LBs :
         Cardinality(RowsOf(lb))
           + Cardinality({w \in Workers : pending[w].loadbalancer_id = lb}) <= 1
    /\ \A r \in store : r.device_id \in DeviceIds
    /\ \A w \in Workers :
         pending[w] # NoRow
         => /\ pending[w].device_id \in DeviceIds \cup {Unknown}
            /\ pending[w].loadbalancer_id = call[w].lb
            /\ call[w].pc \in LeasePcs

C4_Witness ==
    \E w \in Workers :
        /\ pending[w].device_id = Unknown
        /\ call[w].pc = "schedule_device"
        /\ \E r \in store : r.loadbalancer_id # call[w].lb

\* C5: with a binding whose agent is alive and enabled and whose device is
\* found and enabled, resolve returns the bound agent and the bound device,
\* calls no selector and writes nothing, whatever the provisioning status.
C5_BoundPairReturned ==
    \A w \in Workers :
        (/\ Done(w) /\ call[w].found
         /\ call[w].alive /\ call[w].admin_state_up
         /\ call[w].device_state = "enabled")
        => /\ call[w].outcome = "returned"
           /\ call[w].ret_agent = call[w].bound_agent
           /\ call[w].ret_device = call[w].bound_device
           /\ Untouched(call[w])
           /\ call[w].commits = 0
           /\ pending[w] = NoRow

C5_Witness ==
    \E w \in Workers :
        /\ Returned(w) /\ call[w].found
        /\ call[w].alive /\ call[w].admin_state_up
        /\ call[w].device_state = "enabled"
        /\ call[w].status = "ACTIVE"
        /\ call[w].ret_device \in DeviceIds

\* C6: a bound device that is found but disabled is accepted if and only
\* if a prefix is configured and the name of the load balancer holds the
\* prefix followed at once by the first 8 characters of the device id;
\* every other disabled device ends the call with LbaasDeviceDisabled.
C6_Accepted(c) ==
    /\ special_lb_name_prefix # <<>>
    /\ \E i \in 1..Len(c.name) :
         LET want == special_lb_name_prefix \o
                     [k \in 1..(IF Len(c.bound_device) < 8 THEN Len(c.bound_device) ELSE 8)
                        |-> c.bound_device[k]]
         IN  /\ i + Len(want) - 1 <= Len(c.name)
             /\ \A k \in 1..Len(want) : c.name[i + k - 1] = want[k]

C6_DisabledDeviceFallback ==
    \A w \in Workers :
        (Done(w) /\ call[w].found /\ call[w].device_state = "disabled")
        => IF C6_Accepted(call[w])
           THEN /\ call[w].outcome = "returned"
                /\ call[w].ret_agent = call[w].agent
                /\ call[w].ret_device = call[w].bound_device
           ELSE call[w].outcome = "LbaasDeviceDisabled"

C6_Witness ==
    \E w \in Workers :
        /\ Returned(w) /\ call[w].found /\ call[w].device_state = "disabled"
        /\ call[w].bound_device = Dev1
        /\ call[w].name = Prefix \o SubSeq(Dev1, 1, 8) \o <<"-", "v">>

\* C7: with a binding whose device is not found, resolve ends with
\* LbaasDeviceDisappeared, calls no device selector, and the row keeps the
\* device id it had.
C7_DeviceDisappeared ==
    \A w \in Workers :
        (Done(w) /\ call[w].found /\ call[w].device_state = "missing")
        => /\ call[w].outcome = "LbaasDeviceDisappeared"
           /\ call[w].device_calls = 0
           /\ DevicesOf(store, call[w].lb) = {call[w].bound_device}

C7_Witness ==
    \E w \in Workers :
        /\ Done(w) /\ call[w].found /\ call[w].device_state = "missing"
        /\ call[w].outcome = "LbaasDeviceDisappeared"

\* C8 as stated: with a bound agent that is dead or disabled resolve does
\* not fail on that account, selects once, rebinds to another agent and,
\* the device found and enabled, returns the new agent and the bound device.
C8_AlwaysRebinds ==
    \A w \in Workers :
        (Done(w) /\ call[w].found /\ ~(call[w].alive /\ call[w].admin_state_up))
        => /\ call[w].agent_calls = 1
           /\ call[w].agent \in Agents \ {call[w].bound_agent}
           /\ call[w].writes = 1
           /\ call[w].device_state = "enabled"
              => /\ call[w].outcome = "returned"
                 /\ call[w].ret_agent = call[w].agent
                 /\ call[w].ret_device = call[w].bound_device

\* C8 amended: with a bound agent that is dead or disabled resolve calls
\* the agent selector once.  If the selector raises, resolve ends with that
\* error and has written nothing.  If it returns an agent (which may be the
\* bound one), resolve writes that agent into the row in place, the device
\* id kept, and, the device found and enabled, returns that agent and the
\* bound device.
C8_RebindsToSelected ==
    [][\A w \in Workers :
        /\ (call[w].pc = "update_binding" /\ call'[w].pc = "load_device")
           => RowsIn(store', call[w].lb)
                = {Row(call[w].lb, call[w].agent, call[w].bound_device)}
        /\ LET c == call'[w] IN
           (c.pc = "done" /\ c.found /\ ~(c.alive /\ c.admin_state_up))
           => /\ c.agent_calls = 1
              /\ DevicesOf(store', c.lb) = {c.bound_device}
              /\ IF c.outcome = "AgentSchedulerError"
                 THEN c.writes = 0 /\ c.device_state = "none"
                 ELSE /\ c.agent \in Agents
                      /\ c.writes = 1 /\ c.device_calls = 0
                      /\ (c.device_state = "enabled")
                         => /\ c.outcome = "returned"
                            /\ c.ret_agent = c.agent
                            /\ c.ret_device = c.bound_device]_vars

C8_Witness ==
    \E w \in Workers :
        /\ Returned(w) /\ call[w].found /\ ~call[w].alive
        /\ call[w].ret_agent # call[w].bound_agent
        /\ call[w].device_state = "enabled"
        /\ RowsOf(call[w].lb)
             = {Row(call[w].lb, call[w].ret_agent, call[w].bound_device)}

\* C9: without a binding, resolve goes on to scheduling only for
\* PENDING_CREATE; for PENDING_DELETE it returns (None, None), for every
\* other status it raises; in both cases no selector is called and nothing
\* is written.
C9_NoBindingByStatus ==
    \A w \in Workers :
        LET c == call[w] IN
        (c.pc # "idle" /\ ~c.found)
        => /\ (c.status = PENDING_CREATE) => (c.pc = "done" => c.outcome # "Exception")
           /\ (c.status # PENDING_CREATE)
              => /\ c.pc = "done"
                 /\ Untouched(c)
                 /\ pending[w] = NoRow
                 /\ IF c.status = PENDING_DELETE
                    THEN /\ c.outcome = "returned"
                         /\ c.ret_agent = NoAgent
                         /\ c.ret_device = NoDevice
                    ELSE c.outcome = "Exception"

C9_Witness ==
    \E w \in Workers :
        /\ Done(w) /\ ~call[w].found
        /\ call[w].status = "ACTIVE" /\ call[w].outcome = "Exception"

\* C10: a call that ends with DeviceSchedulerBusy has used the wait budget
\* up, holds no open transaction and has committed nothing: no row of the
\* store was written by it.
C10_BusyLeavesNothing ==
    \A w \in Workers :
        (Done(w) /\ call[w].outcome = "DeviceSchedulerBusy")
        => /\ call[w].wait + MaxInterval > max_wait
           /\ pending[w] = NoRow
           /\ call[w].commits = 0
           /\ call[w].ret_device = NoDevice
           /\ (scope.workers = {w}) => RowsOf(call[w].lb) = {}

C10_Witness ==
    \E w \in Workers :
        /\ Done(w) /\ call[w].outcome = "DeviceSchedulerBusy"
        /\ call[w].wait = max_wait
        /\ store = {}

OpDone(w) == op[w].pc = "done"
OpRaised(w) == OpDone(w) /\ op[w].outcome # "returned"
ResolveRaised(w) ==
    op[w].resolves > 0 /\ Done(w) /\ call[w].outcome # "returned"
Calls(o) == {o.sent[i] : i \in 1..Len(o.sent)}
DispatchRaised(w) == \E s \in Calls(op[w]) : ~s.ok
Dispatched(w) == op[w].sent # <<>> /\ \A s \in Calls(op[w]) : s.ok
NoBindingToDelete(w) ==
    Done(w) /\ ~call[w].found /\ call[w].status = PENDING_DELETE

\* C12: when a create, update or delete of one of the six managers other
\* than LoadBalancerManager ends because resolve raised or because the
\* call of agent_rpc raised, update_status has set the load balancer and
\* the entity to ERROR, and the caller gets the exception that was raised.
C12_ErrorMarksBoth ==
    \A w \in Workers :
        (/\ OpDone(w) /\ op[w].kind \in Models /\ op[w].method \in Crud
         /\ ResolveRaised(w) \/ DispatchRaised(w))
        => /\ op[w].marked = {LoadBalancer, op[w].kind}
           /\ op[w].outcome = op[w].raised
           /\ op[w].raised = IF ResolveRaised(w) THEN call[w].outcome ELSE "RpcError"

C12_Witness ==
    \E w \in Workers :
        /\ OpDone(w) /\ op[w].kind = "Listener" /\ op[w].method = "update"
        /\ DispatchRaised(w)
        /\ op[w].marked = {LoadBalancer, "Listener"}
        /\ op[w].outcome = "RpcError"

\* C13 as stated: whenever a create, update or delete of one of the seven
\* managers ends with an exception, whatever raised it, update_status has
\* set the entity to ERROR and the caller gets the exception that was
\* raised first.  (Stated for the entities that have their load balancer:
\* the others are the case of C16.)
C13_FailureLeavesError ==
    \A w \in Workers :
        (OpRaised(w) /\ op[w].kind \in {LoadBalancer} \cup Models /\ op[w].attached)
        => /\ op[w].kind \in op[w].marked
           /\ op[w].outcome = op[w].raised

\* C14 as stated: a method that returns has called agent_rpc, unless it
\* is an ACL bind for a load balancer of another provider or it met a
\* PENDING_DELETE load balancer without binding.
C14_ReturnDispatched ==
    \A w \in Workers :
        (OpDone(w) /\ op[w].outcome = "returned")
        => \/ Dispatched(w)
           \/ op[w].method \in AclBinds /\ op[w].matching = 0
           \/ NoBindingToDelete(w)

\* C14 amended: a method that returns has called agent_rpc and every call
\* returned, with three exceptions: an ACL bind for a load balancer of
\* another provider, update_acl_group for a list without a load balancer
\* of this provider, and delete of a PENDING_DELETE load balancer without
\* binding.  Every other method on such a load balancer raises.
C14_SilentReturns ==
    \A w \in Workers :
        /\ (OpDone(w) /\ op[w].outcome = "returned")
           => \/ Dispatched(w)
              \/ /\ op[w].kind = ACLGroup /\ op[w].matching = 0
                 /\ op[w].resolves = 0 /\ op[w].sent = <<>>
              \/ /\ NoBindingToDelete(w) /\ op[w].sent = <<>>
                 /\ op[w].kind = LoadBalancer /\ op[w].method = "delete"
        /\ (OpDone(w) /\ op[w].resolves > 0 /\ NoBindingToDelete(w)
            /\ ~(op[w].kind = LoadBalancer /\ op[w].method = "delete"))
           => op[w].outcome # "returned" /\ op[w].sent = <<>>

C14_Witness ==
    \E w \in Workers :
        /\ OpDone(w) /\ op[w].outcome = "returned"
        /\ op[w].method = UpdateAclGroup
        /\ op[w].sent = <<>>

\* C15: delete of a PENDING_DELETE load balancer without binding deletes
\* the load balancer from the database, builds no service, calls no
\* agent, sets no status and returns.  When resolve returns an agent and a
\* device, delete builds the service and, built, sends delete_loadbalancer
\* once to the host of that agent; it does not delete the load balancer
\* from the database.
C15_SilentDelete ==
    \A w \in Workers :
        LET o == op[w]
            c == call[w]
        IN  (OpDone(w) /\ o.kind = LoadBalancer /\ o.method = "delete")
            => /\ NoBindingToDelete(w)
                  => /\ o.deleted /\ o.built = 0 /\ o.sent = <<>>
                     /\ o.marked = {} /\ o.outcome = "returned"
               /\ (Returned(w) /\ c.ret_agent # NoAgent)
                  => /\ ~o.deleted /\ o.built = 1
                     /\ IF o.raised = "BuilderError" THEN o.sent = <<>>
                        ELSE /\ Len(o.sent) = 1
                             /\ o.sent[1].rpc = Request(LoadBalancer, "delete")
                             /\ o.sent[1].agent_host = c.ret_agent
                             /\ o.sent[1].device = c.ret_device
                             /\ o.sent[1].lb = c.lb
               /\ ~Returned(w) => ~o.deleted /\ o.sent = <<>>

C15_Witness ==
    \E w \in Workers :
        /\ OpDone(w) /\ op[w].kind = LoadBalancer /\ op[w].method = "delete"
        /\ NoBindingToDelete(w)
        /\ op[w].deleted /\ op[w].outcome = "returned"

\* C16 as stated: a create, update or delete for an entity without load
\* balancer ends with F5NoAttachedLoadbalancerException at the caller;
\* resolve was not called, no selector was called, nothing was sent, and
\* update_status has set the entity, and only the entity, to ERROR.
C16_DetachedMarkedError ==
    \A w \in Workers :
        (OpDone(w) /\ ~op[w].attached)
        => /\ op[w].raised = "F5NoAttachedLoadbalancerException"
           /\ op[w].resolves = 0 /\ call[w] = Idle
           /\ op[w].agent_calls = 0 /\ op[w].sent = <<>>
           /\ op[w].marked = {op[w].kind}
           /\ op[w].outcome = "F5NoAttachedLoadbalancerException"

\* C17: add_acl_bind and remove_acl_bind for a load balancer of another
\* provider return without having called resolve, a selector, the binding
\* table or agent_rpc.  For a load balancer of this provider they call
\* resolve once and agent_rpc at most once, and when they return they
\* have sent exactly one add_acl_bind or remove_acl_bind, to the host of
\* the agent that resolve returned.
C17_AclBindProvider ==
    \A w \in Workers :
        LET o == op[w] IN
        (o.pc # "idle" /\ o.method \in AclBinds)
        => IF o.matching = 0
           THEN /\ o.pc = "done" /\ o.outcome = "returned"
                /\ o.resolves = 0 /\ call[w] = Idle /\ pending[w] = NoRow
                /\ o.sent = <<>>
           ELSE /\ o.resolves = 1
                /\ Len(o.sent) <= 1
                /\ \A s \in Calls(o) :
                     /\ s.rpc = Request(ACLGroup, o.method)
                     /\ s.agent_host = call[w].ret_agent /\ s.lb = call[w].lb
                /\ (o.pc = "done" /\ o.outcome = "returned") => Dispatched(w)
                /\ (o.pc = "done" /\ o.outcome # "returned")
                   => o.outcome = "ACLBindError"

C17_Witness ==
    \E w \in Workers :
        /\ OpDone(w) /\ op[w].method = "add_acl_bind"
        /\ op[w].matching = 0 /\ op[w].outcome = "returned"
        /\ call[w] = Idle /\ op[w].sent = <<>>

BatchDevices(o) == {o.batch[i].device : i \in 1..Len(o.batch)}
LastOn(o, d) ==
    o.batch[CHOOSE i \in 1..Len(o.batch) :
                /\ o.batch[i].device = d
                /\ \A k \in (i + 1)..Len(o.batch) : o.batch[k].device # d]

\* C18: update_acl_group calls resolve once for each load balancer of this
\* provider, all of them before the first call of agent_rpc, and no device
\* is sent two calls; when it returns, it has sent exactly one
\* update_acl_group for each device id that a resolve returned, as many
\* calls as there are distinct device ids.
C18_OneDispatchPerDevice ==
    \A w \in Workers :
        LET o == op[w] IN
        (o.method = UpdateAclGroup)
        => /\ o.resolves <= o.matching /\ Len(o.batch) <= o.resolves
           /\ o.sent # <<>> => Len(o.batch) = o.matching
           /\ \A i, k \in 1..Len(o.sent) :
                i # k => o.sent[i].device # o.sent[k].device
           /\ \A s \in Calls(o) : s.device \in BatchDevices(o)
           /\ (o.pc = "done" /\ o.outcome = "returned" /\ o.matching > 0)
              => /\ o.resolves = o.matching /\ Len(o.batch) = o.matching
                 /\ \A s \in Calls(o) : s.ok
                 /\ {s.device : s \in Calls(o)} = BatchDevices(o)
                 /\ Len(o.sent) = Cardinality(BatchDevices(o))

C18_Witness ==
    \E w \in Workers :
        /\ OpDone(w) /\ op[w].method = UpdateAclGroup /\ op[w].outcome = "returned"
        /\ Len(op[w].batch) = 3
        /\ {op[w].batch[i].lb : i \in 1..3} = AclLBs
        /\ op[w].batch[1].device = op[w].batch[2].device
        /\ op[w].batch[3].device # op[w].batch[1].device
        /\ Len(op[w].sent) = 2

\* C19 as stated: the call that update_acl_group sends for a device
\* carries the bindings of all the load balancers that resolved to that
\* device.
C19_CallReflectsAll ==
    \A w \in Workers :
        LET o == op[w] IN
        (o.method = UpdateAclGroup)
        => \A s \in Calls(o) :
             \A i \in 1..Len(o.batch) :
                (o.batch[i].device = s.device)
                => (s.lb = o.batch[i].lb /\ s.agent_host = o.batch[i].agent_host)

\* C19 amended: the call that update_acl_group sends for a device carries
\* the service of one load balancer and goes to the host of one agent:
\* those of the last load balancer of the list that resolved to that
\* device.  The load balancers that resolved to it before leave no trace
\* in the call.
C19_LastBindingWins ==
    \A w \in Workers :
        LET o == op[w] IN
        (o.method = UpdateAclGroup)
        => /\ \A e \in o.service_devices : e = LastOn(o, e.device)
           /\ {e.device : e \in o.service_devices} = BatchDevices(o)
           /\ \A s \in Calls(o) :
                /\ s.lb = LastOn(o, s.device).lb
                /\ s.agent_host = LastOn(o, s.device).agent_host

C19_Witness ==
    \E w \in Workers :
        /\ op[w].method = UpdateAclGroup
        /\ Len(op[w].batch) = 2
        /\ op[w].batch[1].device = op[w].batch[2].device
        /\ op[w].batch[1].lb # op[w].batch[2].lb
        /\ op[w].batch[1].agent_host # op[w].batch[2].agent_host
        /\ \E s \in Calls(op[w]) :
             /\ s.ok /\ s.lb = op[w].batch[2].lb
             /\ s.agent_host = op[w].batch[2].agent_host

\* C20: in update_acl_group a resolve that raises ends the method before
\* anything is sent, and a call of agent_rpc that raises is the last call
\* of the method; in both cases the caller gets ACLGroupUpdateError.  The
\* calls sent before stay as they were: the method sends nothing but
\* update_acl_group and takes no call back.
C20_BatchAborts ==
    [][\A w \in Workers :
        LET o == op[w]
            n == op'[w]
        IN  (n.method = UpdateAclGroup)
            => /\ (o.method = UpdateAclGroup)
                  => /\ Len(o.sent) <= Len(n.sent)
                     /\ SubSeq(n.sent, 1, Len(o.sent)) = o.sent
               /\ \A i \in 1..Len(n.sent) :
                    /\ n.sent[i].rpc = Request(ACLGroup, UpdateAclGroup)
                    /\ ~n.sent[i].ok
                       => /\ i = Len(n.sent)
                          /\ n.pc = "done"
                          /\ n.outcome = "ACLGroupUpdateError"
               /\ (n.pc = "done" /\ call'[w].pc = "done"
                   /\ call'[w].outcome # "returned")
                  => n.sent = <<>> /\ n.outcome = "ACLGroupUpdateError"
               /\ (o.pc = "done" /\ o.outcome # "returned" /\ o.method = UpdateAclGroup)
                  => n.pc \in {"done", "idle"}]_vars

C20_Witness ==
    \E w \in Workers :
        /\ OpDone(w) /\ op[w].method = UpdateAclGroup
        /\ op[w].outcome = "ACLGroupUpdateError"
        /\ Len(op[w].sent) = 2
        /\ op[w].sent[1].ok /\ ~op[w].sent[2].ok

\* C24 as stated: within one resolve call the agent selector is called at
\* most once and the device selector is called at most once, on every
\* path.
C24_SelectorsOnce ==
    \A w \in Workers : call[w].agent_calls <= 1 /\ call[w].device_calls <= 1

\* C24 amended: within one resolve call the agent selector is called at
\* most once.  The device selector is called at most once in each attempt
\* of the lease loop: it is called from the locking query only, the
\* attempt then commits or is rolled back, and a call selects a device
\* again only after a deadlock signal has rolled back the attempt of the
\* selection before.
C24_SelectOncePerAttempt ==
    /\ [](\A w \in Workers :
            /\ call[w].agent_calls <= 1
            /\ (scope.bounded /\ call[w].device_calls >= 2) => conflicts >= 1)
    /\ [][\A w \in Workers :
            LET c == call[w]
                d == call'[w]
            IN  /\ (d.pc = "schedule_device" /\ c.pc # "schedule_device")
                   => c.pc = "lock"
                /\ (c.pc = "schedule_device" /\ d # c)
                   => /\ d.pc \in {"commit", "done"}
                      /\ d.device_calls = Inc(c.device_calls)
                /\ (c.pc # "schedule_device" /\ d.pc # "idle" /\ c.pc # "idle")
                   => d.device_calls = c.device_calls
                /\ (c.pc = "commit" /\ d # c)
                   => \/ d.pc = "done" /\ d.outcome = "returned"
                         /\ Row(c.lb, c.agent, c.device) \in store'
                      \/ d.pc \in {"flush", "done"} /\ d.outcome # "returned"
                         /\ pending'[w] = NoRow]_vars

C24_Witness ==
    \E w \in Workers :
        /\ Returned(w) /\ ~call[w].found
        /\ call[w].agent_calls = 1 /\ call[w].device_calls = 2
        /\ Row(call[w].lb, call[w].agent, call[w].device) \in store

\* C30: no committed row of the binding table has the placeholder
\* "unknown" for its device: the row is inserted and given its device in
\* one transaction.  A resolve call that has ended, by a return or by any
\* exception, has no transaction open, and the rows that the other
\* callers can read all name a device of the inventory.
C30_NoCommittedPlaceholder ==
    /\ \A r \in store : r.device_id # Unknown /\ r.device_id \in DeviceIds
    /\ \A w \in Workers :
         /\ (call[w].pc \in {"done", "idle"}) => pending[w] = NoRow
         /\ (pending[w] # NoRow) => call[w].pc \in LeasePcs

C30_Witness ==
    \E w \in Workers :
        /\ Done(w) /\ call[w].outcome = "DeviceSchedulerError"
        /\ call[w].writes >= 1 /\ call[w].binding.device_id = Unknown
        /\ pending[w] = NoRow /\ RowsOf(call[w].lb) = {}

\* C27: a committed row of the binding table is never deleted and never
\* joined by a second row of its load balancer, whatever method runs, the
\* delete of the load balancer included: its loadbalancer_id and its
\* device_id stay as they were committed, and its agent_id changes only
\* in the step of a resolve call that reschedules this load balancer, to
\* the agent that the call selected.
C27_BindingKept ==
    [][\A r \in store :
         \E k \in store' :
            /\ k.loadbalancer_id = r.loadbalancer_id
            /\ k.device_id = r.device_id
            /\ RowsIn(store', r.loadbalancer_id) = {k}
            /\ (k.agent_id # r.agent_id)
               => \E w \in Workers :
                    /\ call[w].pc = "update_binding"
                    /\ call'[w].pc = "load_device"
                    /\ call[w].lb = r.loadbalancer_id
                    /\ call[w].found
                    /\ k.agent_id = call[w].agent]_vars

C27_Witness ==
    \E w \in Workers :
        /\ call[w].pc = "load_device" /\ call[w].found
        /\ call[w].agent # call[w].bound_agent
        /\ call[w].bound_device \in DeviceIds
        /\ RowsOf(call[w].lb)
             = {Row(call[w].lb, call[w].agent, call[w].bound_device)}

\* C26: every change that a call makes to the committed row of a load
\* balancer, the commit of the row with its device and the replacement of
\* agent_id in rescheduling, is made by a call that holds the lock of
\* that row when it makes the change.
C26_WritesUnderLock ==
    [][\A lb \in AclLBs :
         (RowsIn(store', lb) # RowsIn(store, lb))
         => \E w \in Workers :
              /\ call[w].lb = lb /\ call'[w] # call[w]
              /\ HoldsRowLock(w, lb)]_vars

StepRank(name) ==
    CASE name = "validate" -> 1
      [] name = "schedule" -> 2
      [] name = "create_port" -> 3
      [] name = "resolve" -> 4
      [] name = "update_port" -> 5
      [] name = "build" -> 6
      [] name = "dispatch" -> 7
      [] name = "update_status" -> 8
Has(o, name) == \E i \in 1..Len(o.steps) : o.steps[i] = name

\* C25: a call of create, update or delete of the seven managers takes
\* its steps in the order validate, resolve, build, dispatch, each at most
\* once, and update_status last of all.  The service is built only after
\* resolve has returned, agent_rpc is called only after resolve has
\* returned a binding and the builder has returned, and at most once.  A
\* step that fails is the last but for update_status: the method has ended
\* and does nothing more.  In LoadBalancerManager.create the port of the
\* VIP is updated after resolve and before the service is built.
C25_StepsInOrder ==
    /\ [](\A w \in Workers :
            LET o == op[w] IN
            (o.kind \in {LoadBalancer} \cup Models)
            => /\ \A i, k \in 1..Len(o.steps) :
                    i < k => StepRank(o.steps[i]) < StepRank(o.steps[k])
               /\ Has(o, "build")
                  => Has(o, "resolve") /\ call[w].pc = "done"
                     /\ call[w].outcome = "returned"
               /\ Has(o, "dispatch")
                  => /\ Has(o, "build") /\ call[w].ret_agent # NoAgent
                     /\ ~(\E i \in 1..Len(o.steps) :
                            o.steps[i] = "build" /\ o.raised = "BuilderError")
               /\ Len(o.sent) = (IF Has(o, "dispatch") THEN 1 ELSE 0)
               /\ Has(o, "update_port")
                  => /\ o.kind = LoadBalancer /\ o.method = "create"
                     /\ Has(o, "resolve") /\ call[w].outcome = "returned"
               /\ (o.kind = LoadBalancer /\ o.method = "create" /\ Has(o, "build"))
                  => Has(o, "update_port") /\ o.raised # "PortError"
               /\ (o.raised # "none")
                  => /\ o.pc = "done"
                     /\ (o.raised = "ValidationError") => ~Has(o, "resolve")
                     /\ (o.raised = "PortError" /\ o.kind = "MemberV2")
                        => ~Has(o, "resolve")
                     /\ (Has(o, "resolve") /\ call[w].outcome # "returned")
                        => ~Has(o, "update_port") /\ ~Has(o, "build")
                     /\ (o.raised \in {"PortError", "BuilderError", "TypeError"})
                        => ~Has(o, "dispatch")
                     /\ (o.raised = "RpcError")
                        => Len(o.sent) = 1 /\ ~o.sent[1].ok)
    /\ [][\A w \in Workers :
            (op[w].pc = "done") => (op'[w] = op[w] \/ op'[w] = NoOp)]_vars

C25_Witness ==
    \E w \in Workers :
        /\ OpDone(w) /\ op[w].outcome = "returned"
        /\ op[w].kind = LoadBalancer /\ op[w].method = "create"
        /\ op[w].steps = <<"validate", "resolve", "update_port", "build", "dispatch">>
        /\ Len(op[w].sent) = 1 /\ op[w].sent[1].ok

\* the listeners, pools and health monitors that belong to a load
\* balancer by the relations of plugin.db
OfLoadBalancer(service) ==
    /\ \A i \in 1..Len(service.listeners) :
         db.listeners[service.listeners[i].id].loadbalancer_id = service.loadbalancer
    /\ \A i \in 1..Len(service.pools) :
         db.pools[service.pools[i].id].loadbalancer_id = service.loadbalancer
    /\ \A i \in 1..Len(service.healthmonitors) :
         LET h == service.healthmonitors[i] IN
         /\ h.pool_id \in DOMAIN db.pools
         /\ db.pools[h.pool_id].healthmonitor = h.id
         /\ db.pools[h.pool_id].loadbalancer_id = service.loadbalancer

\* C21: every service, while the builder fills it and when it is sent,
\* whatever the mode, the manager and the method, holds only listeners and
\* pools of its own load balancer, and only health monitors of pools of
\* its own load balancer.
C21_OnlyOwnEntities ==
    /\ builder.pc \notin {"idle", "update_port", "create_service"}
       => /\ builder.service.loadbalancer = builder.loadbalancer
          /\ OfLoadBalancer(builder.service)
    /\ \A i \in 1..Len(builder.services) :
         /\ builder.services[i].loadbalancer = builder.loadbalancer
         /\ OfLoadBalancer(builder.services[i])

C21_Witness ==
    /\ builder.pc = "built" /\ builder.kind = "L7Policy" /\ builder.method = "create"
    /\ f5_driver_perf_mode = 2
    /\ builder.loadbalancer = "lb1"
    /\ Len(builder.services[1].listeners) = 1
    /\ Len(builder.services[1].pools) = 1
    /\ Len(builder.services[1].healthmonitors) = 1
    /\ Len(ListenersOf("lb1")) = 2

\* C22: _append_pools_monitors with a pool adds one entry to the pools of
\* the service, after the ones that are there: the id of the pool, the
\* ids of its members and of its L7 policies in their order, and
\* session_persistence if and only if the pool has one.  It adds one entry
\* to the health monitors if and only if the pool has a health monitor:
\* the id of the monitor with the id of the pool as pool_id.  It leaves
\* the listeners alone, and with None for the pool it leaves the whole
\* service as it is.
C22_AppendPoolsMonitors ==
    /\ [](AppendPoolsMonitors(builder.service, None) = builder.service)
    /\ [][(builder.pc = "append_pools_monitors" /\ builder.todo.pools # <<>>)
          => LET pool == Head(builder.todo.pools)
                 s == builder.service
                 t == builder'.service
                 n == Len(s.pools)
             IN  IF pool = None THEN t = s
                 ELSE LET row == db.pools[pool]
                          e == t.pools[n + 1]
                      IN  /\ Len(t.pools) = n + 1
                          /\ SubSeq(t.pools, 1, n) = s.pools
                          /\ e.id = pool
                          /\ Len(e.members) = Len(row.members)
                          /\ \A i \in 1..Len(row.members) :
                               e.members[i] = [id |-> row.members[i]]
                          /\ Len(e.l7_policies) = Len(row.l7_policies)
                          /\ \A i \in 1..Len(row.l7_policies) :
                               e.l7_policies[i] = [id |-> row.l7_policies[i]]
                          /\ ("session_persistence" \in DOMAIN e)
                             <=> (row.session_persistence # <<>>)
                          /\ IF row.healthmonitor = None
                             THEN t.healthmonitors = s.healthmonitors
                             ELSE t.healthmonitors =
                                    Append(s.healthmonitors,
                                           [id |-> row.healthmonitor, pool_id |-> pool])
                          /\ t.listeners = s.listeners
                          /\ t.loadbalancer = s.loadbalancer]_vars

C22_Witness ==
    /\ builder.pc = "append_pools_monitors"
    /\ Len(builder.service.pools) = 1
    /\ Len(builder.service.pools[1].members) = 3
    /\ "session_persistence" \in DOMAIN builder.service.pools[1]
    /\ builder.service.healthmonitors = <<[id |-> "h1", pool_id |-> "p1"]>>

C28_AppendListeners ==
    /\ [](AppendListeners(builder.service, None) = builder.service)
    /\ [][(builder.pc = "append_listeners" /\ builder.todo.listeners # <<>>)
          => LET listener == Head(builder.todo.listeners)
                 row == db.listeners[listener]
                 s == builder.service
                 t == builder'.service
                 n == Len(s.listeners)
                 e == t.listeners[n + 1]
             IN  /\ Len(t.listeners) = n + 1
                 /\ SubSeq(t.listeners, 1, n) = s.listeners
                 /\ e.id = listener
                 /\ Len(e.l7_policies) = Len(row.l7_policies)
                 /\ \A i \in 1..Len(row.l7_policies) :
                      e.l7_policies[i] = [id |-> row.l7_policies[i]]
                 /\ ("default_pool_id" \in DOMAIN e) <=> (row.default_pool # None)
                 /\ (row.default_pool # None) => (e.default_pool_id = row.default_pool)
                 /\ t.pools = s.pools
                 /\ t.healthmonitors = s.healthmonitors
                 /\ t.loadbalancer = s.loadbalancer]_vars

C28_Witness ==
    /\ builder.pc = "append_listeners"
    /\ builder.service.listeners
         = <<[id |-> "l1", l7_policies |-> <<[id |-> "y1"], [id |-> "y2"]>>,
              default_pool_id |-> "p1"]>>
    /\ builder.service.pools = <<>>
    /\ builder.service.healthmonitors = <<>>

\* C29: the local_link_information that LoadBalancerManager.create binds
\* to the port of the VIP is the list of the device, as long and in the
\* same order, every link with the fields and values it had; the first
\* link has one field more, lb_mac, the masquerade_mac of the device.  For
\* a device without links the list is one link that holds lb_mac only.
C29_LinksPassedThrough ==
    [][(builder.pc = "update_port")
       => LET given == builder.given.local_link_information
              mac == builder.given.masquerade_mac
              port == builder'.port
          IN  IF given = <<>> THEN port = <<[lb_mac |-> mac]>>
              ELSE /\ Len(port) = Len(given)
                   /\ \A i \in 1..Len(given) :
                        \A k \in DOMAIN given[i] :
                           k \in DOMAIN port[i] /\ port[i][k] = given[i][k]
                   /\ DOMAIN port[1] = DOMAIN given[1] \cup {"lb_mac"}
                   /\ port[1].lb_mac = mac
                   /\ \A i \in 2..Len(given) : port[i] = given[i]]_vars

C29_Witness ==
    /\ builder.pc = "create_service"
    /\ builder.given.local_link_information = <<Link2, Link1>>
    /\ Len(builder.port) = 2
    /\ builder.port[1] = Put(Link2, "lb_mac", "fa:16:3e")
    /\ builder.port[2] = Link1

DeviceErrors == {"LbaasDeviceDisappeared", "LbaasDeviceDisabled"}

\* C32: a call that finds the bound agent dead or disabled writes the
\* agent it selected to the binding row (lines 218-224) before it loads
\* the device (line 227): the step that writes goes on to load the device,
\* and the row then holds the new agent with the device it had.  When the
\* call, alone on its load balancer, then raises LbaasDeviceDisappeared or
\* LbaasDeviceDisabled, the row holds the selected agent still: nothing
\* takes the write back.
C32_AgentKeptOnDeviceError ==
    /\ [][\A w \in Workers :
            (call[w].pc = "update_binding" /\ call'[w] # call[w])
            => /\ call'[w].pc = "load_device"
               /\ call[w].device_state = "none"
               /\ RowsIn(store', call[w].lb)
                    = {Row(call[w].lb, call[w].agent, call[w].bound_device)}]_vars
    /\ [](\A w \in Workers :
            (/\ scope.workers = {w}
             /\ Done(w) /\ call[w].outcome \in DeviceErrors
             /\ call[w].agent_calls > 0)
            => /\ call[w].commits > 0
               /\ RowsOf(call[w].lb)
                    = {Row(call[w].lb, call[w].agent, call[w].bound_device)})

C32_Witness ==
    \E w \in Workers :
        /\ scope.workers = {w}
        /\ Done(w) /\ call[w].outcome = "LbaasDeviceDisabled"
        /\ call[w].agent_calls > 0
        /\ call[w].agent # call[w].bound_agent
        /\ RowsOf(call[w].lb) = {Row(call[w].lb, call[w].agent, call[w].bound_device)}

\* C33: every call that finds the bound agent dead or disabled asks the
\* agent selector once and then sets agent_id of the row to the agent it
\* got, whatever the row holds by then: the value read at line 203 is not
\* compared.  Nothing else changes a committed row, so the row holds the
\* agent of the call that wrote last; a call that wrote before returns
\* its own agent all the same.
C33_LastWriterWins ==
    /\ [][\A w \in Workers :
            (call[w].pc = "update_binding" /\ call'[w] # call[w])
            => /\ call[w].agent_calls = 1
               /\ \A r \in RowsIn(store', call[w].lb) : r.agent_id = call[w].agent
               /\ call'[w].agent = call[w].agent]_vars
    /\ [][\A lb \in LBs :
            (RowsIn(store, lb) # {} /\ RowsIn(store', lb) # RowsIn(store, lb))
            => \E w \in Workers :
                 /\ call[w].pc = "update_binding" /\ call[w].lb = lb
                 /\ call'[w].pc = "load_device"]_vars
    /\ [](\A w \in Workers :
            (Returned(w) /\ call[w].found) => call[w].ret_agent = call[w].agent)

\* two calls for one load balancer have returned, each the agent it
\* selected, and the row holds the agent of one of them only
C33_Witness ==
    \E w, v \in Workers :
        /\ w # v
        /\ Returned(w) /\ Returned(v)
        /\ call[w].lb = call[v].lb
        /\ call[w].agent_calls = 1 /\ call[v].agent_calls = 1
        /\ call[w].found /\ call[v].found
        /\ call[w].commits = 1 /\ call[v].commits = 1
        /\ call[w].ret_agent # call[v].ret_agent
        /\ RowsOf(call[w].lb)
             = {Row(call[w].lb, call[v].ret_agent, call[w].ret_device)}

MemberCreate(o) == o.kind = "MemberV2" /\ o.method = "create"

\* C38: create of a member makes a port, its own, exactly when the count
\* it took before was zero and neither the agent selector nor create_port
\* raised, however many ports the subnet has by then: the count is not
\* taken again.  The call of agent_rpc carries the_port_id if and only if
\* the method created a port, and it is that port.  No step removes a
\* port: the port of a call that raised afterwards stays.
C38_PortWhenNoneCounted ==
    /\ [][\A w \in Workers :
            (op[w].pc = "counted" /\ op'[w] # op[w])
            => LET o == op[w]
                   created == ports' # ports
               IN  /\ created => (o.all_ports = 0 /\ ports' = ports \cup {PortOf(w, o.subnet)})
                   /\ (o.all_ports = 0 /\ op'[w].pc = "resolve") => created
                   /\ created <=> (op'[w].the_port_id # NoPort)
                   /\ created => op'[w].the_port_id = PortOf(w, o.subnet)]_vars
    /\ [][ports \subseteq ports']_vars
    /\ [](\A w \in Workers :
            MemberCreate(op[w])
            => /\ \A i \in 1..Len(op[w].sent) :
                    /\ op[w].sent[i].the_port_id = op[w].the_port_id
                    /\ (op[w].sent[i].the_port_id # NoPort) <=> (op[w].all_ports < 1)
               /\ (op[w].the_port_id # NoPort) => (op[w].the_port_id \in ports))

\* two calls counted no port on one subnet and each made one; the first
\* has raised since, its load balancer and member set to ERROR, and both
\* ports are there
C38_Witness ==
    \E w, v \in Workers :
        /\ w # v
        /\ MemberCreate(op[w]) /\ MemberCreate(op[v])
        /\ op[w].subnet = op[v].subnet
        /\ op[w].all_ports = 0 /\ op[v].all_ports = 0
        /\ {PortOf(w, op[w].subnet), PortOf(v, op[v].subnet)} \subseteq ports
        /\ OpRaised(w) /\ op[w].raised \in {"RpcError", "LbaasDeviceDisappeared"}
        /\ op[v].sent # <<>> /\ op[v].sent[1].the_port_id = PortOf(v, op[v].subnet)

AfterResolve == {"PortError", "BuilderError", "RpcError"}

\* C34: what resolve committed stays.  The binding table changes only in
\* the steps of resolve that write it (lines 218-224 and 315-316), and no
\* step takes the row of a load balancer away or changes its device.  So
\* when create of a load balancer fails after resolve returned a binding
\* (update_port, the builder or agent_rpc raised), the load balancer is
\* set to ERROR and the row with its agent and device is in the table;
\* and a call of resolve that finds a row goes on with that row: it loads
\* its device, after a reschedule if the agent is dead, and selects none.
C34_BindingOutlivesFailure ==
    /\ [][(store' # store)
          => \E w \in Workers :
               /\ call[w].pc \in {"commit", "update_binding"}
               /\ call'[w] # call[w]]_vars
    /\ [][\A r \in store :
            \E q \in store' :
               q.loadbalancer_id = r.loadbalancer_id /\ q.device_id = r.device_id]_vars
    /\ [](\A w \in Workers :
            (/\ scope.workers = {w}
             /\ OpRaised(w) /\ op[w].kind = LoadBalancer /\ op[w].method = "create"
             /\ Returned(w) /\ HasBinding(call[w]))
            => /\ op[w].raised \in AfterResolve
               /\ LoadBalancer \in op[w].marked
               /\ RowsOf(call[w].lb)
                    = {Row(call[w].lb, call[w].ret_agent, call[w].ret_device)})
    /\ [][\A w \in Workers :
            (/\ call[w].pc = "idle" /\ call'[w].pc # "idle"
             /\ RowsOf(call'[w].lb) # {})
            => /\ call'[w].found
               /\ call'[w].pc \in {"reschedule", "load_device"}
               /\ call'[w].bound_device \in DevicesOf(store, call'[w].lb)]_vars

C34_Witness ==
    \E w \in Workers :
        /\ OpRaised(w) /\ op[w].kind = LoadBalancer /\ op[w].method = "create"
        /\ op[w].raised = "PortError"
        /\ LoadBalancer \in op[w].marked
        /\ Returned(w) /\ ~call[w].found /\ call[w].commits = 1
        /\ RowsOf(call[w].lb) = {Row(call[w].lb, call[w].ret_agent, call[w].ret_device)}

\* C35: a method hands append_listeners, append_pools_monitors and
\* append_l7policies_rules to the builder exactly when it is create or
\* delete of one of the six managers below the load balancer and
\* f5_driver_perf_mode is 2 or 3.  Every update, every method of
\* LoadBalancerManager and every method in another mode hands none over,
\* and its service gets the listeners and the pools of the load balancer,
\* all of them.
C35_IncrementalOnlyCreateDelete ==
    (builder.pc # "idle")
    => /\ builder.kwargs \in {{}, Closures}
       /\ (builder.kwargs = Closures)
          <=> /\ builder.kind \in {"Listener", "PoolV2", "MemberV2", "HealthMonitorV2",
                                   "L7Policy", "L7Rule"}
              /\ builder.method \in {"create", "delete"}
              /\ f5_driver_perf_mode \in {2, 3}
       /\ (builder.kwargs = {})
          => /\ builder.hints.listeners = ListenersOf(builder.loadbalancer)
             /\ builder.hints.pools = PoolsOf(builder.loadbalancer)
             /\ \A i \in 1..Len(builder.services) :
                  /\ Len(builder.services[i].listeners)
                       = Len(ListenersOf(builder.loadbalancer))
                  /\ Len(builder.services[i].pools) = Len(PoolsOf(builder.loadbalancer))

C35_Witness ==
    /\ builder.pc = "built"
    /\ builder.kind = "MemberV2" /\ builder.method = "update"
    /\ f5_driver_perf_mode = 3
    /\ builder.kwargs = {}
    /\ builder.loadbalancer = "lb1"
    /\ Len(builder.services[1].listeners) = 2
    /\ Len(builder.services[1].pools) = 1

\* C36: update_acl_group sends its first call only when every load
\* balancer of this provider has been resolved: the step that sends it
\* finds nothing left to resolve and as many results as load balancers.
\* It starts a resolve only while nothing has been sent, and never more
\* resolves than there are load balancers of this provider: with none of
\* them it resolves nothing and sends nothing.  When a resolve raises or
\* gives no agent, the method ends and has sent nothing.
C36_ResolveAllThenDispatch ==
    [][\A w \in Workers :
        LET o == op[w]
            n == op'[w]
        IN  (n.method = UpdateAclGroup)
            => /\ (Len(o.sent) = 0 /\ Len(n.sent) = 1)
                  => /\ o.todo = 0
                     /\ o.resolves = o.matching
                     /\ Len(o.batch) = o.matching
                     /\ \A i \in 1..Len(o.batch) : o.batch[i].agent_host # NoAgent
               /\ (n.resolves > o.resolves)
                  => /\ n.sent = <<>>
                     /\ n.resolves <= n.matching
                     /\ n.resolves = Len(n.batch) + 1
               /\ (n.matching = 0) => (n.resolves = 0 /\ n.sent = <<>> /\ n.pc = "done")
               /\ (o.pc = "resolve" /\ n.pc = "done")
                  => /\ n.sent = <<>>
                     /\ n.outcome = "ACLGroupUpdateError"
                     /\ Len(n.batch) < n.matching]_vars

C36_Witness ==
    \E w \in Workers :
        /\ OpDone(w) /\ op[w].method = UpdateAclGroup
        /\ op[w].matching = 3
        /\ op[w].resolves = 2 /\ Len(op[w].batch) = 1
        /\ op[w].raised = "LbaasDeviceDisappeared"
        /\ op[w].outcome = "ACLGroupUpdateError"
        /\ op[w].sent = <<>>

Hosts(o) == {o.sent[i].agent_host : i \in 1..Len(o.sent)}

\* C37: when update_acl_group has returned, each device that a resolve
\* returned has got one call, sent to the host of the agent of the last
\* load balancer of the list on that device and carrying that load
\* balancer.  The agent of a load balancer that came before it on the
\* device gets a call only if it is the agent of the last load balancer
\* of some device.
C37_LastOfDeviceIsSent ==
    \A w \in Workers :
        LET o == op[w] IN
        (o.method = UpdateAclGroup /\ o.pc = "done" /\ o.outcome = "returned")
        => /\ \A d \in BatchDevices(o) :
                \E i \in 1..Len(o.sent) :
                   /\ o.sent[i].device = d
                   /\ o.sent[i].agent_host = LastOn(o, d).agent_host
                   /\ o.sent[i].lb = LastOn(o, d).lb
                   /\ \A k \in 1..Len(o.sent) : o.sent[k].device = d => k = i
           /\ Hosts(o) = {LastOn(o, d).agent_host : d \in BatchDevices(o)}
           /\ \A i \in 1..Len(o.batch) :
                (\A d \in BatchDevices(o) : LastOn(o, d).agent_host # o.batch[i].agent_host)
                => o.batch[i].agent_host \notin Hosts(o)

C37_Witness ==
    \E w \in Workers :
        /\ OpDone(w) /\ op[w].method = UpdateAclGroup /\ op[w].outcome = "returned"
        /\ Len(op[w].batch) = 2
        /\ op[w].batch[1].device = op[w].batch[2].device
        /\ op[w].batch[1].agent_host = "a1" /\ op[w].batch[2].agent_host = "a2"
        /\ Len(op[w].sent) = 1
        /\ Hosts(op[w]) = {"a2"}
====
